---- MODULE Spec2Model ----
(***************************************************************************)
(* Model of the librarian command engine (internal/command/command.go):    *)
(* the update-apis and configure commands, the per-API update cycle        *)
(* (updateApi), the persisted pipeline state and the git operations the    *)
(* commands drive.  Every external call of the code (container, git,       *)
(* filesystem) is one step whose outcome is chosen nondeterministically.   *)
(***************************************************************************)
EXTENDS Integers, Sequences, FiniteSets, TLC

\* ---------------------------------------------------------------- bounds
MaxApis == 2      \* number of ApiGenerationState records in the state file
MaxHash == 2      \* new corpus commits are numbered 1..MaxHash, by age
MaxCommits == 2   \* longest list a commit query returns
MaxLines == 2     \* most lines of a commit message
MaxLibs == 2      \* number of libraries in librarian.yaml
MaxKeep == 2      \* most entries of a keep list
MaxDeps == 2      \* longest list of package dependencies
MaxChars == 3     \* longest dependency string

ApiIndexes == 1..MaxApis
Hashes == 1..MaxHash

\* ------------------------------------------------------- program values
\* flagLanguage values tried: one supported, one not.
Languages == {"java", "go"}

supportedLanguages == [l \in Languages |-> l = "java"]

\* The automation levels of statepb.AutomationLevel the code distinguishes.
AutomationLevels == {"AUTOMATION_LEVEL_NONE", "AUTOMATION_LEVEL_BLOCKED"}

ImageTags == {"latest"}

\* Field defaults of the protobuf messages (proto3 zero values).
ApiDefault ==
    [Id |-> 0, AutomationLevel |-> "AUTOMATION_LEVEL_NONE", LastGeneratedCommit |-> 0]

ApiKeys == {"Id", "AutomationLevel", "LastGeneratedCommit"}

\* Variant: the last-generated-commit is never written.
MarshalApiWithoutCommit(a) ==
    [k \in {f \in ApiKeys \ {"LastGeneratedCommit"} : a[f] # ApiDefault[f]} |-> a[k]]

\* protojson.Marshal of one ApiGenerationState: fields holding their zero
\* value are left out of the JSON object.
MarshalApi(a) ==
    [k \in {f \in ApiKeys : a[f] # ApiDefault[f]} |-> a[k]]

\* protojson.Unmarshal of one JSON object: absent fields take the zero value.
UnmarshalApi(j) ==
    [k \in ApiKeys |-> IF k \in DOMAIN j THEN j[k] ELSE ApiDefault[k]]

\* The bytes saveState writes for a PipelineState.
MarshalState(s) ==
    [imageTag |-> s.ImageTag,
     apiGenerationStates |->
        [i \in 1..Len(s.ApiGenerationStates) |-> MarshalApi(s.ApiGenerationStates[i])]]

\* The PipelineState loadState builds from the bytes of the state file.
UnmarshalState(d) ==
    [ImageTag |-> d.imageTag,
     ApiGenerationStates |->
        [i \in 1..Len(d.apiGenerationStates) |-> UnmarshalApi(d.apiGenerationStates[i])]]

\* The state files a language repository starts a run with: MaxApis
\* records, ids 1..MaxApis in order, none generated yet.
InitialStates ==
    { [ImageTag |-> "latest",
       ApiGenerationStates |->
          [i \in ApiIndexes |->
              [Id |-> i, AutomationLevel |-> lv[i], LastGeneratedCommit |-> 0]]]
      : lv \in [ApiIndexes -> AutomationLevels] }

\* Newest-first commit lists: hashes are numbered by age, so a list is a
\* strictly decreasing sequence.
RECURSIVE Decreasing(_)
Decreasing(s) ==
    IF Len(s) <= 1 THEN TRUE
    ELSE s[1] > s[2] /\ Decreasing(Tail(s))

CommitLists ==
    { s \in UNION { [1..n -> Hashes] : n \in 0..MaxCommits } : Decreasing(s) }

\* ---------------------------------------------------------------- state
VARIABLES
    cmd,               \* the command that runs: "update-apis" or "configure"
    flagLanguage, flagPush, flagGitHubToken, flagAPIRoot, flagRepoRoot,
    flagAPIPath,       \* 0 is the empty flag, otherwise an API id
    pc,                \* position of the command in its code
    result,            \* "running", "ok" or the error the command returned
    ops,               \* log of external operations: <<name, api index>>
    hardResetApiRepo,
    apiRepoDirty,      \* the corpus checkout has local modifications
    apiRepoDirtyAtStart,
    treeDirty,         \* language repo: modified files other than the state file
    head,              \* language repo: number of commits made on top of the start
    headState,         \* language repo: state file content at the head commit
    disk,              \* language repo: state file content in the working tree
    diskCorrupt,       \* the state file was truncated by a failed write
    state,             \* the in-memory PipelineState
    hashBefore,
    idx,               \* position of the loop in state.ApiGenerationStates
    commits,           \* result of the commit query of the current iteration
    returned,          \* per API: "pending", "nil" or the error updateApi returned
    queried,           \* per API: the set holding the list its query returned
    diskAtIterStart,   \* state file content when the current iteration began
    stateAtIterStart   \* in-memory state when the current iteration began

\* createCommitMessage, run on its own
VARIABLES
    mCommits,          \* the argument: commits, newest first
    mPc,               \* position in createCommitMessage
    mK,                \* number of the iteration of the loop over the commits
    builder,           \* what was written to the strings.Builder, piece by piece
    piperRevIdLines,
    sourceLinkLines

msgVars == <<mCommits, mPc, mK, builder, piperRevIdLines, sourceLinkLines>>

\* the generate command of internal/librarian
VARIABLES
    gEntry,            \* the function that is called: the command or one phase
    gAll,              \* the --all flag
    gName,             \* the library argument: 0 is none, otherwise a name
    gCfg,              \* the content of librarian.yaml
    gPc,               \* position in generateCommand / runGenerate
    gResult,           \* "running", "nil" or the error returned
    gOps,              \* log of the I/O done outside the phases
    gLibraries,        \* the prepared libraries, by name, in order
    gI,                \* position of the loop of a phase in gLibraries
    gTrace,            \* <<phase, "start">> and <<phase, what it returned>>, in order
    gCleaned, gGenerated, gFormatted   \* names of the libraries a phase has done

genVars == <<gEntry, gAll, gName, gCfg, gPc, gResult, gOps, gLibraries, gI,
             gTrace, gCleaned, gGenerated, gFormatted>>

\* checkAndClean of internal/librarian
VARIABLES
    dirKind,           \* what os.Stat(dir) finds: "absent", "noaccess", "file" or "dir"
    tree,              \* the paths that exist under dir, relative to dir
    treeBefore,        \* tree when checkAndClean was called
    keep,              \* the keep list
    keepSet,           \* the set check returns
    cPc,               \* position in checkAndClean
    cResult,           \* "running", "nil" or the error returned
    cRun,              \* the run of checkAndClean on the tree: first or second
    treeAfterFirst     \* the tree the first run left, once a second has begun

cleanVars == <<dirKind, tree, treeBefore, keep, keepSet, cPc, cResult, cRun, treeAfterFirst>>

\* mergePackageDependencies and mergeDartDependencies of internal/librarian
VARIABLES
    mergeFn,           \* the function that is called
    libDeps,           \* its argument from the library
    defaultDeps,       \* its argument from the defaults
    deps,              \* the result
    mergePc

mergeVars == <<mergeFn, libDeps, defaultDeps, deps, mergePc>>

\* applyDefaults of internal/librarian, on one library
VARIABLES
    fLanguage,         \* cfg.Language
    fLib,              \* the library as configured
    fDefaults,         \* cfg.Default: <<>> for nil, or <<d>>
    fResolved,         \* the library after applyDefaults
    fPc,
    fResult            \* "running", "nil" or the error returned

fillVars == <<fLanguage, fLib, fDefaults, fResolved, fPc, fResult>>

\* fillDefaults of internal/librarian, on two libraries with the same defaults
VARIABLES
    heap,              \* the backing arrays of the slices, by number
    sharedDefaults,    \* the Default: its slices and its language section
    libraries,         \* the two libraries: their slices
    resolvedAs,        \* per library, the values fillDefaults gave it
    modifiedLib,       \* the library a caller wrote into afterwards, or 0
    defaultsBefore     \* the values of the defaults at the start

shareVars == <<heap, sharedDefaults, libraries, resolvedAs, modifiedLib, defaultsBefore>>

restVars == <<cleanVars, mergeVars, fillVars, shareVars>>

otherVars == <<msgVars, genVars, restVars>>

cmdVars == <<cmd, flagLanguage, flagPush, flagGitHubToken, flagAPIRoot, flagRepoRoot,
             flagAPIPath, pc, result, ops, hardResetApiRepo, apiRepoDirty,
             apiRepoDirtyAtStart, treeDirty, head, headState, disk, diskCorrupt,
             state, hashBefore, idx, commits, returned, queried, diskAtIterStart,
             stateAtIterStart>>

vars == <<cmdVars, msgVars, genVars, restVars>>

flagVars == <<cmd, flagLanguage, flagPush, flagGitHubToken, flagAPIRoot,
              flagRepoRoot, flagAPIPath, apiRepoDirtyAtStart>>

apiRepoVars == <<hardResetApiRepo, apiRepoDirty>>

langRepoVars == <<treeDirty, head, headState, disk, diskCorrupt>>

loopVars == <<idx, commits, returned, queried, diskAtIterStart, stateAtIterStart>>

NoState == [ImageTag |-> "", ApiGenerationStates |-> <<>>]

\* createCommitMessage is not running.
MsgIdle ==
    /\ mCommits = <<>>
    /\ mPc = "idle"
    /\ mK = 0
    /\ builder = <<>>
    /\ piperRevIdLines = <<>>
    /\ sourceLinkLines = <<>>

NoConfig == [Language |-> "", Sources |-> "nil", Default |-> "nil", Libraries |-> <<>>]

\* The generate command is not running.
GenIdle ==
    /\ gEntry = "idle"
    /\ gAll = FALSE
    /\ gName = 0
    /\ gCfg = NoConfig
    /\ gPc = "idle"
    /\ gResult = "running"
    /\ gOps = {}
    /\ gLibraries = <<>>
    /\ gI = 0
    /\ gTrace = <<>>
    /\ gCleaned = {}
    /\ gGenerated = {}
    /\ gFormatted = {}

\* checkAndClean is not running.
CleanIdle ==
    /\ dirKind = "absent"
    /\ tree = {}
    /\ treeBefore = {}
    /\ keep = {}
    /\ keepSet = {}
    /\ cPc = "idle"
    /\ cResult = "running"
    /\ cRun = 0
    /\ treeAfterFirst = {}

\* The merge functions are not running.
MergeIdle ==
    /\ mergeFn = "idle"
    /\ libDeps = <<>>
    /\ defaultDeps = <<>>
    /\ deps = <<>>
    /\ mergePc = "idle"

NoLibrary ==
    [Veneer |-> FALSE, Output |-> "", ReleaseLevel |-> "", Transport |-> "", Keep |-> <<>>]

\* applyDefaults is not running.
FillIdle ==
    /\ fLanguage = ""
    /\ fLib = NoLibrary
    /\ fDefaults = <<>>
    /\ fResolved = NoLibrary
    /\ fPc = "idle"
    /\ fResult = "running"

\* fillDefaults is not running on shared defaults.
ShareIdle ==
    /\ heap = <<>>
    /\ sharedDefaults = <<>>
    /\ libraries = <<>>
    /\ resolvedAs = <<>>
    /\ modifiedLib = 0
    /\ defaultsBefore = <<>>

RestIdle == CleanIdle /\ MergeIdle /\ FillIdle /\ ShareIdle

\* The state files the head commit of a language repository can hold when
\* the working copy holds s: the same, or one whose last-generated-commit
\* of one API the working copy has since set back.
CommittedStates(s) ==
    {MarshalState(s)} \cup
    { MarshalState([s EXCEPT !.ApiGenerationStates[i].LastGeneratedCommit = h])
        : i \in ApiIndexes, h \in Hashes }

Init ==
    /\ MsgIdle
    /\ GenIdle
    /\ RestIdle
    /\ cmd \in {"update-apis", "configure"}
    /\ flagLanguage \in Languages
    /\ flagPush \in BOOLEAN
    /\ flagGitHubToken \in BOOLEAN
    /\ flagAPIRoot \in BOOLEAN
    /\ flagRepoRoot \in BOOLEAN
    /\ flagAPIPath \in 0..MaxApis
    /\ pc = "start"
    /\ result = "running"
    /\ ops = {}
    /\ hardResetApiRepo = TRUE
    \* a corpus the user supplies may carry modifications; a clone never does
    /\ apiRepoDirty \in (IF flagAPIRoot THEN BOOLEAN ELSE {FALSE})
    /\ apiRepoDirtyAtStart = apiRepoDirty
    /\ treeDirty \in (IF flagRepoRoot THEN BOOLEAN ELSE {FALSE})
    /\ head = 0
    \* a language repository the user supplies may carry an uncommitted
    \* edit of the state file; a clone never does
    /\ \E s \in InitialStates :
          /\ disk = MarshalState(s)
          /\ headState \in (IF flagRepoRoot THEN CommittedStates(s) ELSE {disk})
    /\ diskCorrupt = FALSE
    /\ state = NoState
    /\ hashBefore = 0
    /\ idx = 0
    /\ commits = <<>>
    /\ returned = [i \in ApiIndexes |-> "pending"]
    /\ queried = [i \in ApiIndexes |-> {}]
    /\ diskAtIterStart = disk
    /\ stateAtIterStart = state

\* ------------------------------------------------------ shared helpers
\* The command returns error e.
Fail(e) == pc' = "done" /\ result' = e

Log(name, i) == ops' = ops \cup {<<name, i>>}

\* gitrepo.IsClean of the language repository: nothing differs from head.
LanguageRepoClean ==
    ~treeDirty /\ ~diskCorrupt /\ disk = headState

\* ------------------------------------------------- start of a command
\* Variant: the token is not looked at before the work starts.
TokenMissingUnchecked(push, token) == FALSE

\* The precondition on the token (CmdUpdateApis and CmdConfigure).
TokenMissing(push, token) == push /\ ~token

\* The flag checks that open CmdUpdateApis.Run and CmdConfigure.Run.
CheckFlags ==
    /\ pc = "start"
    /\ IF cmd = "configure" /\ flagAPIPath = 0
         THEN Fail("-api-path is not provided")
       ELSE IF ~supportedLanguages[flagLanguage]
         THEN Fail("invalid -language flag specified")
       ELSE IF TokenMissing(flagPush, flagGitHubToken)
         THEN Fail("-github-token must be provided if -push is set to true")
       ELSE pc' = "createTmpWorkingRoot" /\ result' = result
    /\ UNCHANGED <<otherVars, flagVars, ops, apiRepoVars, langRepoVars, state, hashBefore, loopVars>>

\* createTmpWorkingRoot: uses -work-root or makes a directory under /tmp.
CreateTmpWorkingRoot ==
    /\ pc = "createTmpWorkingRoot"
    /\ Log("createTmpWorkingRoot", 0)
    /\ \/ pc' = "apiRepo" /\ result' = result
       \/ Fail("unable to create temporary working directory")
    /\ UNCHANGED <<otherVars, flagVars, apiRepoVars, langRepoVars, state, hashBefore, loopVars>>

\* Variant: the corpus is reset whatever its state before the run.
HardResetAlways(userSupplied, clean) == TRUE

\* Whether the corpus is reset after the run: a clone always, a corpus the
\* user supplied only when it was clean.
HardResetDecision(userSupplied, clean) ==
    IF userSupplied /\ ~clean THEN FALSE ELSE TRUE

\* CmdUpdateApis: clone the corpus, or open the one given by -api-root.
\* CmdConfigure: clone the corpus, or take the path of -api-root.
ApiRepo ==
    /\ pc = "apiRepo"
    /\ \/ /\ ~flagAPIRoot
          /\ Log("cloneGoogleapis", 0)
          /\ \/ /\ pc' = IF cmd = "update-apis" THEN "outputDir" ELSE "languageRepo"
                /\ result' = result
             \/ Fail("clone of googleapis failed")
          /\ UNCHANGED hardResetApiRepo
       \/ /\ flagAPIRoot
          /\ cmd = "update-apis"
          /\ Log("Open apiRepo", 0)
          /\ \/ /\ pc' = "outputDir"
                /\ result' = result
                /\ hardResetApiRepo' = HardResetDecision(TRUE, ~apiRepoDirty)
             \/ /\ \E e \in {"filepath.Abs failed", "gitrepo.Open failed", "gitrepo.IsClean failed"} :
                      Fail(e)
                /\ UNCHANGED hardResetApiRepo
       \/ /\ flagAPIRoot
          /\ cmd = "configure"
          /\ \/ pc' = "languageRepo" /\ result' = result
             \/ Fail("filepath.Abs failed")
          /\ UNCHANGED <<ops, hardResetApiRepo>>
    /\ UNCHANGED <<otherVars, flagVars, apiRepoDirty, langRepoVars, state, hashBefore, loopVars>>

\* CmdUpdateApis: the output directory (-output, or a new one under tmpRoot).
OutputDir ==
    /\ pc = "outputDir"
    /\ \/ pc' = "languageRepo" /\ result' = result
       \/ Fail("output directory failed")
    /\ UNCHANGED <<otherVars, flagVars, ops, apiRepoVars, langRepoVars, state, hashBefore, loopVars>>

\* The cleanliness CmdUpdateApis requires of a language repository given by
\* -repo-root: the code passes apiRepo to gitrepo.IsClean.
RepoRootClean(apiDirty, langDirty) == ~apiDirty

\* Clone the language repository, or open the one given by -repo-root.
LanguageRepo ==
    /\ pc = "languageRepo"
    /\ \/ /\ ~flagRepoRoot
          /\ Log("cloneLanguageRepo", 0)
          /\ \/ pc' = "loadState" /\ result' = result
             \/ Fail("clone of language repo failed")
       \/ /\ flagRepoRoot
          /\ Log("Open languageRepo", 0)
          /\ \/ \E e \in {"filepath.Abs failed", "gitrepo.Open failed"} : Fail(e)
             \/ cmd = "update-apis" /\ Fail("gitrepo.IsClean failed")
             \/ IF cmd = "update-apis" /\ ~RepoRootClean(apiRepoDirty, treeDirty)
                  THEN Fail("language repo must be clean before update")
                  ELSE pc' = "loadState" /\ result' = result
    /\ UNCHANGED <<otherVars, flagVars, apiRepoVars, langRepoVars, state, hashBefore, loopVars>>

\* loadState: read and parse generator-input/pipeline-state.json.
LoadState ==
    /\ pc = "loadState"
    /\ Log("loadState", 0)
    /\ \/ /\ ~diskCorrupt
          /\ state' = UnmarshalState(disk)
          /\ pc' = IF cmd = "update-apis" THEN "copyGeneratorInput" ELSE "Configure"
          /\ result' = result
       \/ /\ Fail("loadState failed")
          /\ UNCHANGED state
    /\ UNCHANGED <<otherVars, flagVars, apiRepoVars, langRepoVars, hashBefore, loopVars>>

\* CmdUpdateApis: the defensive copy of generator-input.
CopyGeneratorInput ==
    /\ pc = "copyGeneratorInput"
    /\ \/ pc' = "hashBefore" /\ result' = result
       \/ Fail("copy of generator-input failed")
    /\ UNCHANGED <<otherVars, flagVars, ops, apiRepoVars, langRepoVars, state, hashBefore, loopVars>>

\* CmdUpdateApis: record the head of the language repository, enter the loop.
HeadBefore ==
    /\ pc = "hashBefore"
    /\ \/ /\ hashBefore' = head
          /\ pc' = "loop"
          /\ result' = result
          /\ idx' = 1
          /\ diskAtIterStart' = disk
          /\ stateAtIterStart' = state
       \/ /\ Fail("gitrepo.HeadHash failed")
          /\ UNCHANGED <<hashBefore, idx, diskAtIterStart, stateAtIterStart>>
    /\ UNCHANGED <<otherVars, flagVars, ops, apiRepoVars, langRepoVars, state, commits, returned, queried>>

\* ------------------------------------------------------ the per-API loop
ApiStates == state.ApiGenerationStates

\* Variant: the loop steps over the record that follows.
NextApiSkipping(i) == i + 2

\* The range loop of CmdUpdateApis goes to the record that follows.
NextApi(i) == i + 1

\* Variant: the loop goes on to the next API after an error.
AbortsRunNever(e) == FALSE

\* The loop of CmdUpdateApis returns as soon as updateApi returns an error.
AbortsRun(e) == e # "nil"

\* Variant: an error leaves the loop but not the command, which goes on to
\* the steps after the loop.
BreakFromUpdateApi(e) ==
    /\ returned' = [returned EXCEPT ![idx] = e]
    /\ result' = result
    /\ diskAtIterStart' = disk'
    /\ stateAtIterStart' = state'
    /\ IF e # "nil"
         THEN pc' = "resetApiRepo" /\ idx' = idx
         ELSE pc' = "loop" /\ idx' = idx + 1

\* updateApi returns e for the API at idx, and the loop acts on it.  The
\* action that uses this has already fixed disk' and state'.
ReturnFromUpdateApi(e) ==
    /\ returned' = [returned EXCEPT ![idx] = e]
    /\ IF AbortsRun(e)
         THEN /\ Fail(e)
              /\ UNCHANGED <<idx, diskAtIterStart, stateAtIterStart>>
         ELSE /\ pc' = "loop"
              /\ result' = result
              /\ idx' = NextApi(idx)
              /\ diskAtIterStart' = disk'
              /\ stateAtIterStart' = state'

\* The loop has gone through every record of the state.
LoopDone ==
    /\ pc = "loop"
    /\ idx > Len(ApiStates)
    /\ pc' = "resetApiRepo"
    /\ UNCHANGED <<otherVars, flagVars, result, ops, apiRepoVars, langRepoVars, state, hashBefore, loopVars>>

\* updateApi: -api-path names another API, so this one is left alone.
NotSelected(path, id) == path # 0 /\ path # id

\* Variant: the automation level is not looked at.
BlockedIgnored(a) == FALSE

\* updateApi: a blocked API is ignored.
Blocked(a) == a.AutomationLevel = "AUTOMATION_LEVEL_BLOCKED"

UpdateApiIgnore ==
    /\ pc = "loop"
    /\ idx <= Len(ApiStates)
    /\ NotSelected(flagAPIPath, ApiStates[idx].Id) \/ Blocked(ApiStates[idx])
    /\ UNCHANGED <<otherVars, flagVars, ops, apiRepoVars, langRepoVars, state, hashBefore, commits, queried>>
    /\ ReturnFromUpdateApi("nil")

\* Variant: the language repository is built before the change is committed.
UpdateApiStepsBuildFirst ==
    <<"MkdirAll", "Generate", "Clean", "CopyFS", "saveState", "Build", "commitAll", "IsClean">>

\* Variant: the state is saved before the API is generated.
UpdateApiStepsSaveFirst ==
    <<"MkdirAll", "saveState", "Generate", "Clean", "CopyFS", "commitAll", "Build", "IsClean">>

\* The steps of updateApi once the API is known to have new commits, in
\* the order the code runs them.
UpdateApiSteps ==
    <<"MkdirAll", "Generate", "Clean", "CopyFS", "saveState", "commitAll", "Build", "IsClean">>

StepIndex(s) == CHOOSE k \in 1..Len(UpdateApiSteps) : UpdateApiSteps[k] = s

\* Variant: an empty commit list is not told apart.
NoChangesIgnored(c) == FALSE

\* updateApi: an empty commit list means the API has no changes.
NoChanges(c) == Len(c) = 0

\* gitrepo.GetApiCommits: the commits touching the API path since its
\* last-generated-commit, newest first.
GetApiCommits ==
    /\ pc = "loop"
    /\ idx <= Len(ApiStates)
    /\ ~(NotSelected(flagAPIPath, ApiStates[idx].Id) \/ Blocked(ApiStates[idx]))
    /\ Log("GetApiCommits", idx)
    /\ UNCHANGED <<otherVars, flagVars, apiRepoVars, langRepoVars, state, hashBefore>>
    /\ \/ /\ UNCHANGED <<commits, queried>>
          /\ ReturnFromUpdateApi("GetApiCommits failed")
       \/ \E c \in CommitLists :
            /\ commits' = c
            /\ queried' = [queried EXCEPT ![idx] = {c}]
            /\ IF NoChanges(c)
                 THEN ReturnFromUpdateApi("nil")
                 ELSE /\ pc' = UpdateApiSteps[1]
                      /\ UNCHANGED <<result, idx, returned, diskAtIterStart, stateAtIterStart>>

\* A step of updateApi succeeded: go on to the next one, or return nil
\* after the last.
StepDone(s) ==
    IF StepIndex(s) = Len(UpdateApiSteps)
      THEN ReturnFromUpdateApi("nil")
      ELSE /\ pc' = UpdateApiSteps[StepIndex(s) + 1]
           /\ UNCHANGED <<result, idx, returned, diskAtIterStart, stateAtIterStart>>

\* os.MkdirAll of the per-API output directory.
MkdirAll ==
    /\ pc = "MkdirAll"
    /\ Log("MkdirAll", idx)
    /\ UNCHANGED <<otherVars, flagVars, apiRepoVars, langRepoVars, state, hashBefore, commits, queried>>
    /\ \/ StepDone("MkdirAll")
       \/ ReturnFromUpdateApi("MkdirAll failed")

\* container.Generate: reads the corpus (and may leave changes in it),
\* writes the per-API output directory.
Generate ==
    /\ pc = "Generate"
    /\ Log("Generate", idx)
    /\ apiRepoDirty' \in {apiRepoDirty, TRUE}
    /\ UNCHANGED <<otherVars, flagVars, hardResetApiRepo, langRepoVars, state, hashBefore, commits, queried>>
    /\ \/ StepDone("Generate")
       \/ ReturnFromUpdateApi("Generate failed")

\* container.Clean: removes the API's generated files from the language repo.
Clean ==
    /\ pc = "Clean"
    /\ Log("Clean", idx)
    /\ treeDirty' \in {treeDirty, TRUE}
    /\ UNCHANGED <<otherVars, flagVars, apiRepoVars, head, headState, disk, diskCorrupt, state,
                   hashBefore, commits, queried>>
    /\ \/ StepDone("Clean")
       \/ ReturnFromUpdateApi("Clean failed")

\* os.CopyFS of the generated tree into the language repo.
CopyFS ==
    /\ pc = "CopyFS"
    /\ Log("CopyFS", idx)
    /\ treeDirty' \in {treeDirty, TRUE}
    /\ UNCHANGED <<otherVars, flagVars, apiRepoVars, head, headState, disk, diskCorrupt, state,
                   hashBefore, commits, queried>>
    /\ \/ StepDone("CopyFS")
       \/ ReturnFromUpdateApi("CopyFS failed")

\* Variant: the hash of the last commit of the list, the oldest.
OldestCommit(c) == c[Len(c)]

\* The hash updateApi records: that of the first commit of the list.
NewestCommit(c) == c[1]

\* Variant: the record is updated in memory and the file is left for later.
SaveStateInMemoryOnly ==
    /\ pc = "saveState"
    /\ Log("saveState", idx)
    /\ state' = [state EXCEPT
                   !.ApiGenerationStates[idx].LastGeneratedCommit = commits[1]]
    /\ UNCHANGED <<otherVars, flagVars, apiRepoVars, langRepoVars, hashBefore, commits, queried>>
    /\ pc' = "commitAll"
    /\ UNCHANGED <<result, idx, returned, diskAtIterStart, stateAtIterStart>>

\* updateApi sets LastGeneratedCommit in memory, then saveState writes the
\* whole state.  A failed write leaves the file as it was or truncated.
SaveState ==
    /\ pc = "saveState"
    /\ Log("saveState", idx)
    /\ state' = [state EXCEPT
                   !.ApiGenerationStates[idx].LastGeneratedCommit = NewestCommit(commits)]
    /\ UNCHANGED <<otherVars, flagVars, apiRepoVars, treeDirty, head, headState, hashBefore, commits, queried>>
    /\ \/ /\ disk' = MarshalState(state')
          /\ diskCorrupt' = FALSE
          /\ StepDone("saveState")
       \/ /\ UNCHANGED disk
          /\ diskCorrupt' \in {diskCorrupt, TRUE}
          /\ ReturnFromUpdateApi("saveState failed")

\* Variant: a commit is made whether or not anything is modified.
CommitAllAlways(i) ==
    /\ ops' = ops \cup {<<"commitAll", i>>, <<"Commit", i>>}
    /\ head' = head + 1
    /\ headState' = disk
    /\ treeDirty' = FALSE
    /\ UNCHANGED <<disk, diskCorrupt>>

\* commitAll: stage everything; commit unless nothing is modified.
CommitAll(i) ==
    \/ /\ LanguageRepoClean
       /\ Log("commitAll", i)
       /\ UNCHANGED langRepoVars
    \/ /\ ~LanguageRepoClean
       /\ ops' = ops \cup {<<"commitAll", i>>, <<"Commit", i>>}
       /\ head' = head + 1
       /\ headState' = disk
       /\ treeDirty' = FALSE
       /\ UNCHANGED <<disk, diskCorrupt>>

\* commitAll failed in gitrepo.AddAll or gitrepo.Commit: nothing is committed.
CommitAllFails(i) ==
    /\ Log("commitAll", i)
    /\ UNCHANGED langRepoVars

UpdateApiCommit ==
    /\ pc = "commitAll"
    /\ UNCHANGED <<otherVars, flagVars, apiRepoVars, state, hashBefore, commits, queried>>
    /\ \/ CommitAll(idx) /\ StepDone("commitAll")
       \/ CommitAllFails(idx) /\ ReturnFromUpdateApi("commitAll failed")

\* container.Build of the language repo; a build may write into the tree.
Build ==
    /\ pc = "Build"
    /\ Log("Build", idx)
    /\ treeDirty' \in {treeDirty, TRUE}
    /\ UNCHANGED <<otherVars, flagVars, apiRepoVars, head, headState, disk, diskCorrupt, state,
                   hashBefore, commits, queried>>
    /\ \/ StepDone("Build")
       \/ ReturnFromUpdateApi("Build failed")

\* Variant: the tree is not looked at after the build.
AfterBuildUnchecked(clean) == "nil"

\* updateApi after the build: a tree that is not clean is an error of its own.
AfterBuild(clean) ==
    IF ~clean THEN "building created changes in the repo" ELSE "nil"

IsClean ==
    /\ pc = "IsClean"
    /\ Log("IsClean", idx)
    /\ UNCHANGED <<otherVars, flagVars, apiRepoVars, langRepoVars, state, hashBefore, commits, queried>>
    /\ \/ ReturnFromUpdateApi("gitrepo.IsClean failed")
       \/ ReturnFromUpdateApi(AfterBuild(LanguageRepoClean))

\* ------------------------------------------------------- after the loop
\* CmdUpdateApis: reset the corpus unless it was dirty before the command.
\* The error of gitrepo.ResetHard is not looked at.
ResetApiRepo ==
    /\ pc = "resetApiRepo"
    /\ IF hardResetApiRepo
         THEN /\ Log("ResetHard", 0)
              /\ apiRepoDirty' \in {FALSE, apiRepoDirty}
         ELSE UNCHANGED <<ops, apiRepoDirty>>
    /\ pc' = "pushCheck"
    /\ UNCHANGED <<otherVars, flagVars, result, hardResetApiRepo, langRepoVars, state, hashBefore, loopVars>>

\* Variant: the heads are not compared.
HeadMovedAlways(before, after) == TRUE

\* CmdUpdateApis: there is something to push when the head has moved.
HeadMoved(before, after) == before # after

PushCheck ==
    /\ pc = "pushCheck"
    /\ IF ~flagPush
         THEN pc' = "done" /\ result' = "ok"
         ELSE \/ Fail("gitrepo.HeadHash failed")
              \/ IF HeadMoved(hashBefore, head)
                   THEN pc' = "push" /\ result' = result
                   ELSE pc' = "done" /\ result' = "ok"
    /\ UNCHANGED <<otherVars, flagVars, ops, apiRepoVars, langRepoVars, state, hashBefore, loopVars>>

\* push: push a branch named after the start of the run ...
Push ==
    /\ pc = "push"
    /\ IF ~flagPush
         THEN pc' = "done" /\ result' = "ok" /\ UNCHANGED ops
       ELSE IF ~flagGitHubToken
         THEN Fail("no GitHub token supplied for push") /\ UNCHANGED ops
       ELSE /\ Log("PushBranch", 0)
            /\ \/ pc' = "CreatePullRequest" /\ result' = result
               \/ Fail("gitrepo.PushBranch failed")
    /\ UNCHANGED <<otherVars, flagVars, apiRepoVars, langRepoVars, state, hashBefore, loopVars>>

\* ... and open a pull request for it.
CreatePullRequest ==
    /\ pc = "CreatePullRequest"
    /\ Log("CreatePullRequest", 0)
    /\ \/ pc' = "done" /\ result' = "ok"
       \/ Fail("gitrepo.CreatePullRequest failed")
    /\ UNCHANGED <<otherVars, flagVars, apiRepoVars, langRepoVars, state, hashBefore, loopVars>>

\* ------------------------------------------------------------ configure
\* The steps of CmdConfigure after loadState, in the order the code runs them.
ConfigureSteps ==
    <<"Configure", "Mkdir", "CopyInput", "ConfigureGenerate", "ConfigureClean",
      "ConfigureCopyFS", "ConfigureCommit", "ConfigureBuild", "push">>

ConfigureNext(s) ==
    ConfigureSteps[(CHOOSE k \in 1..Len(ConfigureSteps) : ConfigureSteps[k] = s) + 1]

\* container.Configure: adds the API to generator-input in the language repo.
Configure ==
    /\ pc = "Configure"
    /\ Log("Configure", 0)
    /\ treeDirty' \in {treeDirty, TRUE}
    /\ \/ pc' = ConfigureNext("Configure") /\ result' = result
       \/ Fail("Configure failed")
    /\ UNCHANGED <<otherVars, flagVars, apiRepoVars, head, headState, disk, diskCorrupt, state,
                   hashBefore, loopVars>>

\* os.Mkdir of the output directory, then the defensive copy of generator-input.
ConfigurePrepare ==
    /\ pc \in {"Mkdir", "CopyInput"}
    /\ \/ pc' = ConfigureNext(pc) /\ result' = result
       \/ Fail(pc \o " failed")
    /\ UNCHANGED <<otherVars, flagVars, ops, apiRepoVars, langRepoVars, state, hashBefore, loopVars>>

\* container.Generate for the configured API; the corpus is not copied.
ConfigureGenerate ==
    /\ pc = "ConfigureGenerate"
    /\ Log("Generate", 0)
    /\ apiRepoDirty' \in {apiRepoDirty, TRUE}
    /\ \/ pc' = ConfigureNext("ConfigureGenerate") /\ result' = result
       \/ Fail("Generate failed")
    /\ UNCHANGED <<otherVars, flagVars, hardResetApiRepo, langRepoVars, state, hashBefore, loopVars>>

\* container.Clean of the non-API files, then os.CopyFS of the output.
ConfigureCleanCopy ==
    /\ pc \in {"ConfigureClean", "ConfigureCopyFS"}
    /\ Log(IF pc = "ConfigureClean" THEN "Clean" ELSE "CopyFS", 0)
    /\ treeDirty' \in {treeDirty, TRUE}
    /\ \/ pc' = ConfigureNext(pc) /\ result' = result
       \/ Fail(pc \o " failed")
    /\ UNCHANGED <<otherVars, flagVars, apiRepoVars, head, headState, disk, diskCorrupt, state,
                   hashBefore, loopVars>>

ConfigureCommit ==
    /\ pc = "ConfigureCommit"
    /\ \/ CommitAll(0) /\ pc' = ConfigureNext("ConfigureCommit") /\ result' = result
       \/ CommitAllFails(0) /\ Fail("commitAll failed")
    /\ UNCHANGED <<otherVars, flagVars, apiRepoVars, state, hashBefore, loopVars>>

ConfigureBuild ==
    /\ pc = "ConfigureBuild"
    /\ Log("Build", 0)
    /\ treeDirty' \in {treeDirty, TRUE}
    /\ \/ pc' = ConfigureNext("ConfigureBuild") /\ result' = result
       \/ Fail("Build failed")
    /\ UNCHANGED <<otherVars, flagVars, apiRepoVars, head, headState, disk, diskCorrupt, state,
                   hashBefore, loopVars>>

\* ---------------------------------------------------------- the machine
Next ==
    \/ CheckFlags
    \/ CreateTmpWorkingRoot
    \/ ApiRepo
    \/ OutputDir
    \/ LanguageRepo
    \/ LoadState
    \/ CopyGeneratorInput
    \/ HeadBefore
    \/ LoopDone
    \/ UpdateApiIgnore
    \/ GetApiCommits
    \/ MkdirAll
    \/ Generate
    \/ Clean
    \/ CopyFS
    \/ SaveState
    \/ UpdateApiCommit
    \/ Build
    \/ IsClean
    \/ ResetApiRepo
    \/ PushCheck
    \/ Push
    \/ CreatePullRequest
    \/ Configure
    \/ ConfigurePrepare
    \/ ConfigureGenerate
    \/ ConfigureCleanCopy
    \/ ConfigureCommit
    \/ ConfigureBuild

Spec == Init /\ [][Next]_vars

TypeOK ==
    /\ pc \in {"start", "done", "createTmpWorkingRoot", "apiRepo", "outputDir",
               "languageRepo", "loadState", "copyGeneratorInput", "hashBefore", "loop",
               "resetApiRepo", "pushCheck", "push", "CreatePullRequest"}
              \cup {UpdateApiSteps[k] : k \in 1..Len(UpdateApiSteps)}
              \cup {ConfigureSteps[k] : k \in 1..Len(ConfigureSteps)}
    /\ idx \in 0..(MaxApis + 1)
    /\ head \in 0..(MaxApis + 1)
    /\ commits \in CommitLists
    /\ (pc = "done") = (result # "running")

\* The commands of internal/command are not running.
CmdIdle ==
    /\ cmd = "idle"
    /\ flagLanguage = ""
    /\ flagPush = FALSE
    /\ flagGitHubToken = FALSE
    /\ flagAPIRoot = FALSE
    /\ flagRepoRoot = FALSE
    /\ flagAPIPath = 0
    /\ pc = "idle"
    /\ result = "running"
    /\ ops = {}
    /\ hardResetApiRepo = TRUE
    /\ apiRepoDirty = FALSE
    /\ apiRepoDirtyAtStart = FALSE
    /\ treeDirty = FALSE
    /\ head = 0
    /\ disk = MarshalState(NoState)
    /\ headState = disk
    /\ diskCorrupt = FALSE
    /\ state = NoState
    /\ hashBefore = 0
    /\ idx = 0
    /\ commits = <<>>
    /\ returned = [i \in ApiIndexes |-> "pending"]
    /\ queried = [i \in ApiIndexes |-> {}]
    /\ diskAtIterStart = disk
    /\ stateAtIterStart = state

\* ------------------------------------------------- createCommitMessage
\* A line of a commit message is the prefix it starts with, if it is one
\* the code tells apart, and the rest of the line.
PiperPrefix == "PiperOrigin-RevId: "

SourceLinkPrefix == "Source-Link: https://github.com/googleapis/googleapis/commit/"

Line(prefix, rest) == [prefix |-> prefix, rest |-> rest]

NewLine == Line("", "\n")

MessageLines == {Line("", "fix: a change"), Line("", ""), Line(PiperPrefix, "123")}

\* strings.Split(commit.Message, "\n"): the lines of a message, at least one.
Messages == UNION { [1..n -> MessageLines] : n \in 1..MaxLines }

\* The list of commits made of the hashes hs and the messages ms.
MessageCommits(hs, ms) == [k \in 1..Len(hs) |-> [Hash |-> hs[k], Message |-> ms[k]]]

\* strings.HasPrefix(line, PiperPrefix)
HasPiperPrefix(line) == line.prefix = PiperPrefix

\* Variant: the commits are consumed in the order of the list, newest first.
ListOrder(k, n) == k

\* The loop runs from the last commit of the list to the first: the k-th
\* iteration takes the commit at this position of a list of n.
ConsumeOrder(k, n) == n - k + 1

\* The Source-Link line made for a commit.
SourceLinkLine(commit) == Line(SourceLinkPrefix, ToString(commit.Hash))

\* The inner loop over the lines of one message: PiperOrigin-RevId lines go
\* to the accumulator acc[2], every other line is written, with a newline,
\* to the builder acc[1].
RECURSIVE ConsumeLines(_, _)
ConsumeLines(lines, acc) ==
    IF lines = <<>> THEN acc
    ELSE ConsumeLines(Tail(lines),
            IF HasPiperPrefix(Head(lines))
              THEN <<acc[1], Append(acc[2], Head(lines))>>
              ELSE <<acc[1] \o <<Head(lines), NewLine>>, acc[2]>>)

\* Writes every line of a list to the builder, each followed by a newline.
RECURSIVE WriteLines(_, _)
WriteLines(b, lines) ==
    IF lines = <<>> THEN b
    ELSE WriteLines(b \o <<Head(lines), NewLine>>, Tail(lines))

\* One iteration of the loop over the commits.
ConsumeCommit ==
    /\ mPc = "commits"
    /\ mK < Len(mCommits)
    /\ LET commit == mCommits[ConsumeOrder(mK + 1, Len(mCommits))]
           acc == ConsumeLines(commit.Message, <<builder, piperRevIdLines>>)
       IN /\ sourceLinkLines' = Append(sourceLinkLines, SourceLinkLine(commit))
          /\ builder' = acc[1]
          /\ piperRevIdLines' = acc[2]
    /\ mK' = mK + 1
    /\ UNCHANGED <<mCommits, mPc, cmdVars, genVars, restVars>>

\* After the commits: write the PiperOrigin-RevId lines.
WriteRevIdLines ==
    /\ mPc = "commits"
    /\ mK = Len(mCommits)
    /\ builder' = WriteLines(builder, piperRevIdLines)
    /\ mPc' = "sourceLinks"
    /\ UNCHANGED <<mCommits, mK, piperRevIdLines, sourceLinkLines, cmdVars, genVars, restVars>>

\* Then the Source-Link lines; the builder is the message returned.
WriteSourceLinkLines ==
    /\ mPc = "sourceLinks"
    /\ builder' = WriteLines(builder, sourceLinkLines)
    /\ mPc' = "done"
    /\ UNCHANGED <<mCommits, mK, piperRevIdLines, sourceLinkLines, cmdVars, genVars, restVars>>

MsgInit ==
    /\ CmdIdle
    /\ GenIdle
    /\ RestIdle
    /\ \E hs \in CommitLists :
          \E ms \in [1..Len(hs) -> Messages] : mCommits = MessageCommits(hs, ms)
    /\ mPc = "commits"
    /\ mK = 0
    /\ builder = <<>>
    /\ piperRevIdLines = <<>>
    /\ sourceLinkLines = <<>>

MsgNext ==
    \/ ConsumeCommit
    \/ WriteRevIdLines
    \/ WriteSourceLinkLines

MsgSpec == MsgInit /\ [][MsgNext]_vars

\* ------------------------------------------ generate (internal/librarian)
languageDart == "dart"

languageFake == "fake"

languageGo == "go"

languageJava == "java"

languageRust == "rust"

languagePython == "python"

\* The languages a case of the dispatch switches names.
RegisteredLanguages ==
    {languageDart, languageFake, languageGo, languageJava, languageRust, languagePython}

\* The values of cfg.Language that are tried: the registered ones and one
\* that no switch names.
GenLanguages == RegisteredLanguages \cup {"cobol"}

errMissingLibraryOrAllFlag == "must specify library name or use --all flag"

errBothLibraryAndAllFlag == "cannot specify both library name and --all flag"

errEmptySources == "sources required in librarian.yaml"

errSkipGenerate == "library has skip_generate set"

ErrLibraryNotFound == "library not found"

errAllSkipped == "no libraries to generate: all libraries have skip_generate set"

errVeneerOutput == "veneer requires an explicit output path"

errNoGeneration == "language does not support generation"

errNoFormatting == "language does not support formatting"

\* Errors that come from outside the code modelled here.
errReadConfig == "yaml.Read failed"

errLoadSources == "LoadSources failed"

errClean == "clean failed"

errGenerate == "generate failed"

errFormat == "format failed"

errPostGenerate == "postGenerate failed"

nilPointerPanic == "panic: nil pointer dereference"

\* The libraries of a librarian.yaml: names are unique, the k-th library is
\* named k. Output is "" when the library gives no output path.
LibraryConfigs ==
    UNION { { [k \in 1..n |-> [Name |-> k, SkipGenerate |-> sk[k],
                               Veneer |-> ve[k], Output |-> out[k]]]
              : sk \in [1..n -> BOOLEAN], ve \in [1..n -> BOOLEAN],
                out \in [1..n -> {"", "out"}] }
            : n \in 0..MaxLibs }

Configs ==
    [Language : GenLanguages, Sources : {"nil", "set"}, Default : {"nil", "set"},
     Libraries : LibraryConfigs]

\* The library argument: 0 for none, a name of the configuration, or
\* MaxLibs + 1, a name no library has.
LibraryNames == 0..(MaxLibs + 1)

\* The library sets a phase is called with directly.
LibrarySets == { [k \in 1..n |-> k] : n \in 0..MaxLibs }

Phases == {"clean", "generate", "format", "postGenerate"}

Range(seq) == { seq[k] : k \in 1..Len(seq) }

\* Variant: a name together with --all is accepted.
BothGivenAccepted(all, libraryName) == FALSE

\* all && libraryName != ""
BothGiven(all, libraryName) == all /\ libraryName # 0

\* Variant: skip_generate is not looked at.
shouldGenerateSkipIgnored(lib, all, libraryName) == all \/ lib.Name = libraryName

shouldGenerate(lib, all, libraryName) ==
    IF lib.SkipGenerate THEN FALSE ELSE all \/ lib.Name = libraryName

\* Variant: a veneer is treated like any other library.
applyDefaultsVeneerUnchecked(lib, defaults) ==
    IF lib.Output # "" THEN "nil"
    ELSE IF defaults = "nil" THEN nilPointerPanic
    ELSE "nil"

\* What applyDefaults returns to runGenerate: "nil" with the prepared
\* library, the veneer error, or the panic of reading defaults.Output
\* through a nil defaults.
applyDefaults(lib, defaults) ==
    IF lib.Output # "" THEN "nil"
    ELSE IF lib.Veneer THEN errVeneerOutput
    ELSE IF defaults = "nil" THEN nilPointerPanic
    ELSE "nil"

\* Variant: the name is never found among the libraries.
NamedLibraryNeverExists(libs, name) == FALSE

\* The loop that looks for lib.Name == libraryName.
NamedLibraryExists(libs, name) == \E k \in 1..Len(libs) : libs[k].Name = name

\* Variant: generate is dispatched before clean.
PhaseOrderGenerateFirst == <<"generate", "clean", "format", "postGenerate">>

\* The order in which runGenerate calls the phases.
PhaseOrder == <<"clean", "generate", "format", "postGenerate">>

\* Variant: the error of a phase is dropped.
PhaseErrorIgnored(err) == FALSE

\* if err := phase(...); err != nil { return err }
PhaseFailed(err) == err # "nil"

\* Variant: every dispatch rejects a language it has no case for.
UnsupportedAlways(phase, language) ==
    IF language \in RegisteredLanguages THEN "nil"
    ELSE CASE phase = "generate" -> errNoGeneration
           [] phase = "format" -> errNoFormatting
           [] OTHER -> "language does not support this phase"

\* What the dispatch of a phase returns for a language no case names:
\* generateLibraries and formatLibraries have a default case with an error,
\* the switch of cleanLibraries has no default case and postGenerate's
\* default case returns nil.
Unsupported(phase, language) ==
    IF language \in RegisteredLanguages THEN "nil"
    ELSE CASE phase = "generate" -> errNoGeneration
           [] phase = "format" -> errNoFormatting
           [] OTHER -> "nil"

\* The languages whose case of cleanLibraries calls a backend.
CleanBackends == RegisteredLanguages \ {languageFake}

\* The languages whose case of postGenerate calls a backend.
PostGenerateBackends == {languageRust, languageFake}

PhaseIndex(phase) == CHOOSE k \in 1..Len(PhaseOrder) : PhaseOrder[k] = phase

\* A phase returns err: to the caller of the phase, or to runGenerate, which
\* returns the error or calls the next phase.
ReturnFromPhase(phase, err) ==
    LET trace == Append(gTrace, <<phase, err>>)
        k == PhaseIndex(phase)
    IN IF gEntry # "generateCommand" \/ PhaseFailed(err) \/ k = Len(PhaseOrder)
         THEN /\ gResult' = err
              /\ gPc' = "done"
              /\ gTrace' = trace
              /\ gI' = gI
         ELSE /\ gResult' = gResult
              /\ gPc' = PhaseOrder[k + 1]
              /\ gTrace' = Append(trace, <<PhaseOrder[k + 1], "start">>)
              /\ gI' = 1

genInputs == <<gEntry, gAll, gName, gCfg>>

genDone == <<gCleaned, gGenerated, gFormatted>>

\* generateCommand: the checks of the arguments.
CheckArgs ==
    /\ gPc = "args"
    /\ IF ~gAll /\ gName = 0
         THEN gResult' = errMissingLibraryOrAllFlag /\ gPc' = "done"
         ELSE IF BothGiven(gAll, gName)
           THEN gResult' = errBothLibraryAndAllFlag /\ gPc' = "done"
           ELSE gResult' = gResult /\ gPc' = "readConfig"
    /\ UNCHANGED <<genInputs, genDone, gOps, gLibraries, gI, gTrace, cmdVars, msgVars, restVars>>

\* yaml.Read of librarian.yaml
ReadConfig ==
    /\ gPc = "readConfig"
    /\ gOps' = gOps \cup {"yaml.Read"}
    /\ \/ gResult' = errReadConfig /\ gPc' = "done"
       \/ gResult' = gResult /\ gPc' = "sources"
    /\ UNCHANGED <<genInputs, genDone, gLibraries, gI, gTrace, cmdVars, msgVars, restVars>>

\* runGenerate: the check of cfg.Sources, then LoadSources.
LoadSources ==
    /\ gPc = "sources"
    /\ IF gCfg.Sources = "nil"
         THEN gResult' = errEmptySources /\ gPc' = "done" /\ gOps' = gOps /\ gI' = gI
         ELSE /\ gOps' = gOps \cup {"LoadSources"}
              /\ \/ gResult' = errLoadSources /\ gPc' = "done" /\ gI' = gI
                 \/ gResult' = gResult /\ gPc' = "prepare" /\ gI' = 1
    /\ UNCHANGED <<genInputs, genDone, gLibraries, gTrace, cmdVars, msgVars, restVars>>

\* Variant: a library whose resolution fails is left out and the loop goes on.
PrepareLibraryErrorSkipped ==
    /\ gPc = "prepare"
    /\ gI <= Len(gCfg.Libraries)
    /\ LET lib == gCfg.Libraries[gI]
           err == applyDefaults(lib, gCfg.Default)
       IN IF ~shouldGenerate(lib, gAll, gName) \/ err # "nil"
            THEN gI' = gI + 1 /\ UNCHANGED <<gLibraries, gPc, gResult>>
            ELSE /\ gLibraries' = Append(gLibraries, lib.Name)
                 /\ gI' = gI + 1
                 /\ UNCHANGED <<gPc, gResult>>
    /\ UNCHANGED <<genInputs, genDone, gOps, gTrace, cmdVars, msgVars, restVars>>

\* One iteration of the loop that prepares the libraries to generate.
PrepareLibrary ==
    /\ gPc = "prepare"
    /\ gI <= Len(gCfg.Libraries)
    /\ LET lib == gCfg.Libraries[gI]
           err == applyDefaults(lib, gCfg.Default)
       IN IF ~shouldGenerate(lib, gAll, gName)
            THEN gI' = gI + 1 /\ UNCHANGED <<gLibraries, gPc, gResult>>
            ELSE IF err = "nil"
              THEN /\ gLibraries' = Append(gLibraries, lib.Name)
                   /\ gI' = gI + 1
                   /\ UNCHANGED <<gPc, gResult>>
              ELSE /\ gResult' = err
                   /\ gPc' = "done"
                   /\ UNCHANGED <<gLibraries, gI>>
    /\ UNCHANGED <<genInputs, genDone, gOps, gTrace, cmdVars, msgVars, restVars>>

\* After the loop: no library to generate is an error, otherwise the first
\* phase is called.
SelectLibraries ==
    /\ gPc = "prepare"
    /\ gI > Len(gCfg.Libraries)
    /\ IF Len(gLibraries) = 0
         THEN /\ gResult' = IF gAll THEN errAllSkipped
                            ELSE IF NamedLibraryExists(gCfg.Libraries, gName)
                              THEN errSkipGenerate
                              ELSE ErrLibraryNotFound
              /\ gPc' = "done"
              /\ UNCHANGED <<gI, gTrace>>
         ELSE /\ gPc' = PhaseOrder[1]
              /\ gI' = 1
              /\ gTrace' = <<<<PhaseOrder[1], "start">>>>
              /\ gResult' = gResult
    /\ UNCHANGED <<genInputs, genDone, gOps, gLibraries, cmdVars, msgVars, restVars>>

\* cleanLibraries: one iteration of the loop over the libraries.
CleanLibrary ==
    /\ gPc = "clean"
    /\ gI <= Len(gLibraries)
    /\ IF Unsupported("clean", gCfg.Language) # "nil"
         THEN /\ ReturnFromPhase("clean", Unsupported("clean", gCfg.Language))
              /\ gCleaned' = gCleaned
         ELSE IF gCfg.Language \in CleanBackends
           THEN \/ /\ gCleaned' = gCleaned \cup {gLibraries[gI]}
                   /\ gI' = gI + 1
                   /\ UNCHANGED <<gPc, gResult, gTrace>>
                \/ /\ ReturnFromPhase("clean", errClean)
                   /\ gCleaned' = gCleaned
           ELSE /\ gI' = gI + 1
                /\ UNCHANGED <<gCleaned, gPc, gResult, gTrace>>
    /\ UNCHANGED <<genInputs, gGenerated, gFormatted, gOps, gLibraries, cmdVars, msgVars, restVars>>

\* cleanLibraries: the loop is over, it returns nil.
CleanReturn ==
    /\ gPc = "clean"
    /\ gI > Len(gLibraries)
    /\ ReturnFromPhase("clean", "nil")
    /\ UNCHANGED <<genInputs, genDone, gOps, gLibraries, cmdVars, msgVars, restVars>>

\* generateLibraries: the backend of the language generates one more of
\* the libraries it was given, in an order of its choice, or fails.
GenerateLibrary ==
    /\ gPc = "generate"
    /\ Unsupported("generate", gCfg.Language) = "nil"
    /\ \E name \in Range(gLibraries) \ gGenerated :
          \/ /\ gGenerated' = gGenerated \cup {name}
             /\ UNCHANGED <<gPc, gResult, gTrace, gI>>
          \/ /\ ReturnFromPhase("generate", errGenerate)
             /\ gGenerated' = gGenerated
    /\ UNCHANGED <<genInputs, gCleaned, gFormatted, gOps, gLibraries, cmdVars, msgVars, restVars>>

\* generateLibraries returns: the error of the default case, or nil when
\* the backend has generated every library.
GenerateReturn ==
    /\ gPc = "generate"
    /\ IF Unsupported("generate", gCfg.Language) # "nil"
         THEN ReturnFromPhase("generate", Unsupported("generate", gCfg.Language))
         ELSE /\ Range(gLibraries) \subseteq gGenerated
              /\ ReturnFromPhase("generate", "nil")
    /\ UNCHANGED <<genInputs, genDone, gOps, gLibraries, cmdVars, msgVars, restVars>>

\* formatLibraries: one iteration of the loop over the libraries.
FormatLibrary ==
    /\ gPc = "format"
    /\ gI <= Len(gLibraries)
    /\ IF gCfg.Language = languagePython
         THEN /\ ReturnFromPhase("format", "nil")
              /\ gFormatted' = gFormatted
         ELSE IF Unsupported("format", gCfg.Language) # "nil"
           THEN /\ ReturnFromPhase("format", Unsupported("format", gCfg.Language))
                /\ gFormatted' = gFormatted
           ELSE \/ /\ gFormatted' = gFormatted \cup {gLibraries[gI]}
                   /\ gI' = gI + 1
                   /\ UNCHANGED <<gPc, gResult, gTrace>>
                \/ /\ ReturnFromPhase("format", errFormat)
                   /\ gFormatted' = gFormatted
    /\ UNCHANGED <<genInputs, gCleaned, gGenerated, gOps, gLibraries, cmdVars, msgVars, restVars>>

\* formatLibraries: the loop is over, it returns nil.
FormatReturn ==
    /\ gPc = "format"
    /\ gI > Len(gLibraries)
    /\ ReturnFromPhase("format", "nil")
    /\ UNCHANGED <<genInputs, genDone, gOps, gLibraries, cmdVars, msgVars, restVars>>

\* postGenerate: one call for the repository.
PostGenerate ==
    /\ gPc = "postGenerate"
    /\ IF gCfg.Language \in PostGenerateBackends
         THEN \/ ReturnFromPhase("postGenerate", "nil")
              \/ ReturnFromPhase("postGenerate", errPostGenerate)
         ELSE ReturnFromPhase("postGenerate", Unsupported("postGenerate", gCfg.Language))
    /\ UNCHANGED <<genInputs, genDone, gOps, gLibraries, cmdVars, msgVars, restVars>>

\* Either the generate command is run on a librarian.yaml, or one phase is
\* called with a language and a set of prepared libraries.
GenInit ==
    /\ CmdIdle
    /\ MsgIdle
    /\ RestIdle
    /\ gEntry \in {"generateCommand"} \cup Phases
    /\ IF gEntry = "generateCommand"
         THEN /\ gAll \in BOOLEAN
              /\ gName \in LibraryNames
              /\ gCfg \in Configs
              /\ gLibraries = <<>>
              /\ gPc = "args"
              /\ gTrace = <<>>
         ELSE /\ gAll = FALSE
              /\ gName = 0
              /\ gCfg \in { [NoConfig EXCEPT !.Language = l] : l \in GenLanguages }
              /\ gLibraries \in LibrarySets
              /\ gPc = gEntry
              /\ gTrace = << <<gEntry, "start">> >>
    /\ gResult = "running"
    /\ gOps = {}
    /\ gI = 1
    /\ gCleaned = {}
    /\ gGenerated = {}
    /\ gFormatted = {}

GenNext ==
    \/ CheckArgs
    \/ ReadConfig
    \/ LoadSources
    \/ PrepareLibrary
    \/ SelectLibraries
    \/ CleanLibrary
    \/ CleanReturn
    \/ GenerateLibrary
    \/ GenerateReturn
    \/ FormatLibrary
    \/ FormatReturn
    \/ PostGenerate

GenSpec == GenInit /\ [][GenNext]_vars

GenTypeOK ==
    /\ gEntry \in {"generateCommand"} \cup Phases
    /\ gPc \in {"args", "readConfig", "sources", "prepare", "done"} \cup Phases
    /\ gI \in 0..(MaxLibs + 1)
    /\ gCleaned \subseteq Range(gLibraries)
    /\ gGenerated \subseteq Range(gLibraries)
    /\ gFormatted \subseteq Range(gLibraries)
    /\ Len(gTrace) <= 2 * Len(PhaseOrder)

\* ------------------------------------------------------- checkAndClean
\* A path relative to dir is the sequence of its names. The paths that are
\* tried, in the order filepath.WalkDir visits them (each directory before
\* its entries, the entries of a directory in lexical order).
WalkOrder ==
    << <<".gemini">>,
       <<".git">>, <<".git", "f">>,
       <<"d">>, <<"d", ".github">>, <<"d", ".github", "f">>,
       <<"d", "e">>, <<"d", "e", "f">>,
       <<"d", "f">>, <<"d", "librarian.yaml">>,
       <<"f">>, <<"librarian.yaml">> >>

AllPaths == { WalkOrder[n] : n \in 1..Len(WalkOrder) }

\* The paths that are directories when they exist; the others are files.
DirPaths == { <<".gemini">>, <<".git">>, <<"d">>, <<"d", ".github">>, <<"d", "e">> }

\* d.Name() == ".git" || d.Name() == ".github" || d.Name() == ".gemini"
ControlNames == {".git", ".github", ".gemini"}

Parent(p) == SubSeq(p, 1, Len(p) - 1)

IsUnder(p, q) == Len(q) < Len(p) /\ SubSeq(p, 1, Len(q)) = q

\* The trees dir can hold: with a path, the directories it is in.
Trees ==
    { t \in SUBSET AllPaths :
        \A p \in t : Len(p) > 1 => Parent(p) \in t /\ Parent(p) \in DirPaths }

\* The entries a keep list is written with: the paths, and a spelling of
\* one of them that is not canonical.
KeepEntries == AllPaths \cup { <<"d", ".", "f">> }

\* The keep lists that are tried; the order of a list only decides which
\* missing entry an error names.
KeepLists == { k \in SUBSET KeepEntries : Cardinality(k) <= MaxKeep }

NotDot(name) == name # "."

\* filepath.Rel(dir, filepath.Join(dir, k)): the canonical relative path.
Rel(k) == SelectSeq(k, NotDot)

\* Variant: a keep entry that is missing is not noticed.
KeepMissingIgnored(t, k) == FALSE

\* os.Stat(filepath.Join(dir, k)) says the entry does not exist.
KeepMissing(t, k) == Rel(k) \notin t

\* Variant: the walk descends into every directory.
SkippedNever(p) == FALSE

\* The walk does not reach p: p is a control directory or inside one
\* (filepath.SkipDir).
Skipped(p) ==
    \E n \in 1..Len(p) :
       /\ p[n] \in ControlNames
       /\ SubSeq(p, 1, n) \in DirPaths

\* Variant: a file named librarian.yaml is kept in whatever directory it is.
KeptFileAnyConfig(p, ks) == p[Len(p)] = "librarian.yaml" \/ p \in ks

\* Variant: files in the keep set are removed as well.
KeptFileNever(p, ks) == FALSE

\* rel == "librarian.yaml" || keepSet[rel]
KeptFile(p, ks) == p = <<"librarian.yaml">> \/ p \in ks

\* The files of t the first pass calls os.Remove on, in the order of the walk.
RECURSIVE FilesToRemove(_, _, _)
FilesToRemove(t, ks, n) ==
    IF n > Len(WalkOrder) THEN <<>>
    ELSE IF /\ WalkOrder[n] \in t
            /\ WalkOrder[n] \notin DirPaths
            /\ ~Skipped(WalkOrder[n])
            /\ ~KeptFile(WalkOrder[n], ks)
      THEN <<WalkOrder[n]>> \o FilesToRemove(t, ks, n + 1)
      ELSE FilesToRemove(t, ks, n + 1)

\* The slice dirs of the second pass: the directories the walk reaches,
\* without the root, in the order of the walk.
RECURSIVE CollectDirs(_, _)
CollectDirs(t, n) ==
    IF n > Len(WalkOrder) THEN <<>>
    ELSE IF WalkOrder[n] \in t /\ WalkOrder[n] \in DirPaths /\ ~Skipped(WalkOrder[n])
      THEN <<WalkOrder[n]>> \o CollectDirs(t, n + 1)
      ELSE CollectDirs(t, n + 1)

IsEmptyDir(t, p) == ~\E q \in t : IsUnder(q, p)

\* Variant: a directory of the keep set is removed like any other.
KeptDirNever(p, ks) == FALSE

\* if keepSet[rel] { continue }
KeptDir(p, ks) == p \in ks

\* The loop over dirs from the last to the first: os.Remove removes a
\* directory only when it is empty, and its error is dropped.
RECURSIVE RemoveDirs(_, _, _, _)
\* Variant: the loop goes over dirs from the first to the last, parents
\* before their children.
RECURSIVE RemoveDirsTopDown(_, _, _, _)
RemoveDirsTopDown(t, ds, ks, n) ==
    IF n = 0 THEN t
    ELSE LET d == ds[Len(ds) - n + 1]
         IN IF ~KeptDir(d, ks) /\ IsEmptyDir(t, d)
              THEN RemoveDirsTopDown(t \ {d}, ds, ks, n - 1)
              ELSE RemoveDirsTopDown(t, ds, ks, n - 1)

RemoveDirs(t, ds, ks, n) ==
    IF n = 0 THEN t
    ELSE IF ~KeptDir(ds[n], ks) /\ IsEmptyDir(t, ds[n])
      THEN RemoveDirs(t \ {ds[n]}, ds, ks, n - 1)
      ELSE RemoveDirs(t, ds, ks, n - 1)

errCannotAccess == "cannot access output directory"

errNotADirectory == "is not a directory"

errKeepMissing == "keep file does not exist"

\* The error of os.Lstat(dir) that filepath.WalkDir hands to its function,
\* which returns it.
errLstat == "lstat: no such file or directory"

errRemove == "os.Remove failed"

notCleanVars == <<cmdVars, msgVars, genVars, mergeVars, fillVars, shareVars>>

\* check: the directory, then every entry of the keep list.
Check ==
    /\ cPc = "check"
    /\ CASE dirKind = "absent" ->
              keepSet' = {} /\ cPc' = "pass1" /\ cResult' = cResult
         [] dirKind = "noaccess" ->
              keepSet' = {} /\ cPc' = "done" /\ cResult' = errCannotAccess
         [] dirKind = "file" ->
              keepSet' = {} /\ cPc' = "done" /\ cResult' = errNotADirectory
         [] dirKind = "dir" ->
              IF \E k \in keep : KeepMissing(tree, k)
                THEN keepSet' = {} /\ cPc' = "done" /\ cResult' = errKeepMissing
                ELSE /\ keepSet' = { Rel(k) : k \in keep }
                     /\ cPc' = "pass1"
                     /\ cResult' = cResult
    /\ UNCHANGED <<dirKind, tree, treeBefore, keep, cRun, treeAfterFirst, notCleanVars>>

\* clean, first pass: the walk that removes the files; it stops at the
\* first os.Remove that fails, and at once when dir does not exist.
RemoveFiles ==
    /\ cPc = "pass1"
    /\ IF dirKind = "absent"
         THEN tree' = tree /\ cPc' = "done" /\ cResult' = errLstat
         ELSE LET files == FilesToRemove(tree, keepSet, 1)
              IN \/ /\ tree' = tree \ Range(files)
                    /\ cPc' = "pass2"
                    /\ cResult' = cResult
                 \/ \E n \in 1..Len(files) :
                       /\ tree' = tree \ { files[m] : m \in 1..(n - 1) }
                       /\ cPc' = "done"
                       /\ cResult' = errRemove
    /\ UNCHANGED <<dirKind, treeBefore, keep, keepSet, cRun, treeAfterFirst, notCleanVars>>

\* clean, second pass: collect the directories, remove the empty ones from
\* the last to the first, return nil.
RemoveEmptyDirs ==
    /\ cPc = "pass2"
    /\ LET dirs == CollectDirs(tree, 1)
       IN tree' = RemoveDirs(tree, dirs, keepSet, Len(dirs))
    /\ cPc' = "done"
    /\ cResult' = "nil"
    /\ UNCHANGED <<dirKind, treeBefore, keep, keepSet, cRun, treeAfterFirst, notCleanVars>>

\* The caller runs checkAndClean a second time, with the same keep list, on
\* the tree a first run that returned nil has left.
CheckAndCleanAgain ==
    /\ cPc = "done"
    /\ cResult = "nil"
    /\ cRun = 1
    /\ cRun' = 2
    /\ treeAfterFirst' = tree
    /\ keepSet' = {}
    /\ cPc' = "check"
    /\ cResult' = "running"
    /\ UNCHANGED <<dirKind, tree, treeBefore, keep, notCleanVars>>

CleanInit ==
    /\ CmdIdle
    /\ MsgIdle
    /\ GenIdle
    /\ MergeIdle
    /\ FillIdle
    /\ ShareIdle
    /\ dirKind \in {"absent", "noaccess", "file", "dir"}
    /\ tree \in IF dirKind = "dir" THEN Trees ELSE {{}}
    /\ treeBefore = tree
    /\ keep \in KeepLists
    /\ keepSet = {}
    /\ cPc = "check"
    /\ cResult = "running"
    /\ cRun = 1
    /\ treeAfterFirst = {}

CleanNext ==
    \/ Check
    \/ RemoveFiles
    \/ RemoveEmptyDirs
    \/ CheckAndCleanAgain

CleanSpec == CleanInit /\ [][CleanNext]_vars

CleanTypeOK ==
    /\ dirKind \in {"absent", "noaccess", "file", "dir"}
    /\ tree \in Trees
    /\ tree \subseteq treeBefore
    /\ keepSet \subseteq AllPaths
    /\ cPc \in {"check", "pass1", "pass2", "done"}
    /\ cRun \in {1, 2}

\* ------------------------------------------------------ merge functions
\* A RustPackageDependency: its name and what it says about the package.
PackageDependencies == [Name : {"a", "b"}, Package : {"p", "q"}]

\* The dependency lists mergePackageDependencies is tried on.
DependencyLists == UNION { [1..n -> PackageDependencies] : n \in 0..MaxDeps }

\* Variant: no name is recorded as seen.
SeenNone(lib) == {}

\* seen after the loop over lib: the names the library declares.
Seen(lib) == { lib[n].Name : n \in 1..Len(lib) }

\* The loop over defaults: a copy of every dependency whose name is not in
\* seen is appended to the result.
RECURSIVE AppendUnseen(_, _, _)
AppendUnseen(res, defaults, seen) ==
    IF defaults = <<>> THEN res
    ELSE AppendUnseen(IF Head(defaults).Name \in seen THEN res
                      ELSE Append(res, Head(defaults)),
                      Tail(defaults), seen)

mergePackageDependencies(defaults, lib) == AppendUnseen(lib, defaults, Seen(lib))

\* A string is the sequence of its characters.
Characters == {"a", "b", " ", ","}

\* The strings mergeDartDependencies is tried on.
Strings == UNION { [1..n -> Characters] : n \in 0..MaxChars }

\* strings.Split(str, ","): the pieces between the commas, at least one.
RECURSIVE Split(_, _)
Split(str, piece) ==
    IF str = <<>> THEN <<piece>>
    ELSE IF Head(str) = "," THEN <<piece>> \o Split(Tail(str), <<>>)
    ELSE Split(Tail(str), Append(piece, Head(str)))

RECURSIVE TrimLeft(_)
TrimLeft(str) ==
    IF str # <<>> /\ Head(str) = " " THEN TrimLeft(Tail(str)) ELSE str

RECURSIVE TrimRight(_)
TrimRight(str) ==
    IF str # <<>> /\ str[Len(str)] = " "
      THEN TrimRight(SubSeq(str, 1, Len(str) - 1))
      ELSE str

\* strings.TrimSpace
TrimSpace(str) == TrimRight(TrimLeft(str))

\* strings.Join(elems, ",")
RECURSIVE Join(_)
Join(elems) ==
    IF elems = <<>> THEN <<>>
    ELSE IF Len(elems) = 1 THEN elems[1]
    ELSE elems[1] \o <<",">> \o Join(Tail(elems))

\* The first loop of mergeDartDependencies: every trimmed, non-empty piece
\* of the library's string is appended; acc is <<seen, deps>>.
RECURSIVE LibraryLoop(_, _)
LibraryLoop(pieces, acc) ==
    IF pieces = <<>> THEN acc
    ELSE LET dep == TrimSpace(Head(pieces))
         IN LibraryLoop(Tail(pieces),
               IF dep = <<>> THEN acc
               ELSE <<acc[1] \cup {dep}, Append(acc[2], dep)>>)

\* The second loop: a trimmed, non-empty piece of the defaults' string is
\* appended unless the first loop has seen it; seen is not added to.
RECURSIVE DefaultsLoop(_, _)
DefaultsLoop(pieces, acc) ==
    IF pieces = <<>> THEN acc
    ELSE LET dep == TrimSpace(Head(pieces))
         IN DefaultsLoop(Tail(pieces),
               IF dep = <<>> \/ dep \in acc[1] THEN acc
               ELSE <<acc[1], Append(acc[2], dep)>>)

mergeDartDependencies(lib, defaults) ==
    Join(DefaultsLoop(Split(defaults, <<>>),
                      LibraryLoop(Split(lib, <<>>), <<{}, <<>>>>))[2])

notMergeVars == <<cmdVars, msgVars, genVars, cleanVars, fillVars, shareVars>>

MergePackageDependencies ==
    /\ mergePc = "call"
    /\ mergeFn = "mergePackageDependencies"
    /\ deps' = mergePackageDependencies(defaultDeps, libDeps)
    /\ mergePc' = "done"
    /\ UNCHANGED <<mergeFn, libDeps, defaultDeps, notMergeVars>>

MergeDartDependencies ==
    /\ mergePc = "call"
    /\ mergeFn = "mergeDartDependencies"
    /\ deps' = mergeDartDependencies(libDeps, defaultDeps)
    /\ mergePc' = "done"
    /\ UNCHANGED <<mergeFn, libDeps, defaultDeps, notMergeVars>>

MergeInit ==
    /\ CmdIdle
    /\ MsgIdle
    /\ GenIdle
    /\ CleanIdle
    /\ FillIdle
    /\ ShareIdle
    /\ mergeFn \in {"mergePackageDependencies", "mergeDartDependencies"}
    /\ IF mergeFn = "mergePackageDependencies"
         THEN libDeps \in DependencyLists /\ defaultDeps \in DependencyLists
         ELSE libDeps \in Strings /\ defaultDeps \in Strings
    /\ deps = <<>>
    /\ mergePc = "call"

MergeNext ==
    \/ MergePackageDependencies
    \/ MergeDartDependencies

MergeSpec == MergeInit /\ [][MergeNext]_vars

\* ------------------------------------------------------- applyDefaults
\* The libraries applyDefaults is tried on: a library named "name" whose
\* first API has the path "api".
FillLibraries ==
    [Veneer : BOOLEAN, Output : {"", "lib"}, ReleaseLevel : {"", "stable"},
     Transport : {"", "rest"}, Keep : {<<>>, <<"a">>, <<"a", "b">>}]

\* The Default records it is tried with; a nil Keep is the empty list.
FillDefaults ==
    [Output : {"", "def"}, ReleaseLevel : {"", "preview"},
     Transport : {"", "grpc"}, Keep : {<<>>, <<"a">>, <<"c", "a">>}]

\* defaultOutput: the naming convention of the language applied to the
\* name, the path of the first API and the default output root.
defaultOutput(language, defaultOut) ==
    CASE language \in {languageDart, languagePython} ->
            IF defaultOut = "" THEN "name" ELSE "def/name"
      [] language = languageRust ->
            IF defaultOut = "" THEN "api" ELSE "def/api"
      [] OTHER -> defaultOut

\* Variant: the default wins whenever it is set.
FillFieldDefaultFirst(libValue, defaultValue) ==
    IF defaultValue # "" THEN defaultValue ELSE libValue

\* if lib.X == "" { lib.X = d.X }
FillField(libValue, defaultValue) ==
    IF libValue = "" THEN defaultValue ELSE libValue

\* Variant: the keep list of the defaults replaces the library's.
FillKeepReplaced(libKeep, defaultKeep) == defaultKeep

\* lib.Keep = append(lib.Keep, d.Keep...)
FillKeep(libKeep, defaultKeep) == libKeep \o defaultKeep

\* fillDefaults, for the fields every language has.
fillDefaults(lib, d) ==
    IF d = <<>> THEN lib
    ELSE [lib EXCEPT !.Keep = FillKeep(lib.Keep, d[1].Keep),
                     !.Output = FillField(lib.Output, d[1].Output),
                     !.ReleaseLevel = FillField(lib.ReleaseLevel, d[1].ReleaseLevel),
                     !.Transport = FillField(lib.Transport, d[1].Transport)]

notFillVars == <<cmdVars, msgVars, genVars, cleanVars, mergeVars, shareVars>>

\* applyDefaults: the output path, then fillDefaults.
ApplyDefaults ==
    /\ fPc = "call"
    /\ LET err == applyDefaults(fLib, IF fDefaults = <<>> THEN "nil" ELSE "set")
       IN IF err # "nil"
            THEN fResult' = err /\ fResolved' = fResolved
            ELSE /\ fResult' = "nil"
                 /\ fResolved' =
                       fillDefaults(
                          IF fLib.Output = ""
                            THEN [fLib EXCEPT !.Output =
                                     defaultOutput(fLanguage, fDefaults[1].Output)]
                            ELSE fLib,
                          fDefaults)
    /\ fPc' = "done"
    /\ UNCHANGED <<fLanguage, fLib, fDefaults, notFillVars>>

FillInit ==
    /\ CmdIdle
    /\ MsgIdle
    /\ GenIdle
    /\ CleanIdle
    /\ MergeIdle
    /\ ShareIdle
    /\ fLanguage \in GenLanguages
    /\ fLib \in FillLibraries
    /\ fDefaults \in {<<>>} \cup { <<d>> : d \in FillDefaults }
    /\ fResolved = NoLibrary
    /\ fPc = "call"
    /\ fResult = "running"

FillNext == ApplyDefaults

FillSpec == FillInit /\ [][FillNext]_vars

\* ------------------------------------------------------------------------
\* fillDefaults on two libraries that share one Default.  A slice is a
\* window on a backing array: the array's number and the slice's length;
\* the array's length is the slice's capacity.
\* ------------------------------------------------------------------------

\* The language sections a Default can carry: none, Rust (its slice is
\* DisabledRustdocWarnings) or Python (its slice is CommonGAPICPaths).
Sections == {"none", "rust", "python"}

ShareLibs == {1, 2}

\* The elements a slice has: s[1..len] of its backing array.
View(h, s) == [n \in 1..s.len |-> h[s.arr][n]]

\* cap(s)
Cap(h, s) == Len(h[s.arr])

\* A backing array with the given elements and spare cells behind them.
Backing(elems, spare) == elems \o [n \in 1..spare |-> ""]

\* append(s, elems...): nothing to append returns s itself; elements that
\* fit in the capacity are written into the backing array of s; otherwise
\* the elements move to a new array.  The result is <<heap, slice>>.
GoAppend(h, s, elems) ==
    IF elems = <<>>
    THEN <<h, s>>
    ELSE IF s.len + Len(elems) <= Cap(h, s)
         THEN << [h EXCEPT ![s.arr] =
                     [n \in 1..Len(@) |->
                         IF n > s.len /\ n <= s.len + Len(elems)
                         THEN elems[n - s.len]
                         ELSE @[n]]],
                 [s EXCEPT !.len = @ + Len(elems)] >>
         ELSE << Append(h, View(h, s) \o elems),
                 [arr |-> Len(h) + 1, len |-> s.len + Len(elems)] >>

\* fillDefaults, the Keep line: lib.Keep = append(lib.Keep, d.Keep...).
ShareKeep(h, lib, d) == GoAppend(h, lib.Keep, View(h, d.Keep))

\* fillRust and fillPython, the slice of the section: Rust hands the
\* library the slice of the defaults when the library has none; Python
\* appends the library's paths to the slice of the defaults.
ShareSection(h, lib, d) ==
    CASE d.Section = "rust" ->
           IF lib.Sub.len = 0 THEN <<h, d.Sub>> ELSE <<h, lib.Sub>>
      [] d.Section = "python" -> GoAppend(h, d.Sub, View(h, lib.Sub))
      [] OTHER -> <<h, lib.Sub>>

\* What a library holds: the elements of its two slices.
LibValue(h, lib) == [Keep |-> View(h, lib.Keep), Sub |-> View(h, lib.Sub)]

\* What the defaults hold.
DefaultsValue(h, d) ==
    [Keep |-> View(h, d.Keep), Sub |-> View(h, d.Sub), Section |-> d.Section]

\* fillDefaults(lib, d) for one of the libraries, not yet resolved.
ResolveLibrary ==
    \E i \in ShareLibs :
        /\ sharedDefaults # <<>>
        /\ resolvedAs[i] = <<>>
        /\ modifiedLib = 0
        /\ LET kept == ShareKeep(heap, libraries[i], sharedDefaults)
               sect == ShareSection(kept[1], libraries[i], sharedDefaults)
               lib  == [Keep |-> kept[2], Sub |-> sect[2]]
           IN /\ heap' = sect[1]
              /\ libraries' = [libraries EXCEPT ![i] = lib]
              /\ resolvedAs' = [resolvedAs EXCEPT ![i] = <<LibValue(sect[1], lib)>>]
        /\ UNCHANGED <<sharedDefaults, modifiedLib, defaultsBefore>>
        /\ UNCHANGED <<cmdVars, msgVars, genVars, cleanVars, mergeVars, fillVars>>

\* A caller writes one element of a slice of a resolved library.
ModifyLibrary ==
    \E i \in ShareLibs, field \in {"Keep", "Sub"} :
        /\ sharedDefaults # <<>>
        /\ resolvedAs[i] # <<>>
        /\ modifiedLib = 0
        /\ \E n \in 1..libraries[i][field].len :
               heap' = [heap EXCEPT ![libraries[i][field].arr][n] = "x"]
        /\ modifiedLib' = i
        /\ UNCHANGED <<sharedDefaults, libraries, resolvedAs, defaultsBefore>>
        /\ UNCHANGED <<cmdVars, msgVars, genVars, cleanVars, mergeVars, fillVars>>

\* The slices a configuration can hold: none or one element, with or
\* without a spare cell behind it.
ShareInit ==
    /\ CmdIdle
    /\ MsgIdle
    /\ GenIdle
    /\ CleanIdle
    /\ MergeIdle
    /\ FillIdle
    /\ \E section \in Sections :
       \E dk, ds, k1, s1, k2, s2 \in 0..1 :
       \E cs, c1, c2 \in 0..1 :
           /\ heap = << Backing(IF dk = 1 THEN <<"dk">> ELSE <<>>, 0),
                        Backing(IF ds = 1 THEN <<"ds">> ELSE <<>>, cs),
                        Backing(IF k1 = 1 THEN <<"k1">> ELSE <<>>, c1),
                        Backing(IF s1 = 1 THEN <<"s1">> ELSE <<>>, 0),
                        Backing(IF k2 = 1 THEN <<"k2">> ELSE <<>>, c2),
                        Backing(IF s2 = 1 THEN <<"s2">> ELSE <<>>, 0) >>
           /\ sharedDefaults = [Keep |-> [arr |-> 1, len |-> dk],
                                Sub |-> [arr |-> 2, len |-> ds],
                                Section |-> section]
           /\ libraries = << [Keep |-> [arr |-> 3, len |-> k1],
                              Sub |-> [arr |-> 4, len |-> s1]],
                             [Keep |-> [arr |-> 5, len |-> k2],
                              Sub |-> [arr |-> 6, len |-> s2]] >>
    /\ resolvedAs = << <<>>, <<>> >>
    /\ modifiedLib = 0
    /\ defaultsBefore = DefaultsValue(heap, sharedDefaults)

ShareNext == ResolveLibrary \/ ModifyLibrary

ShareSpec == ShareInit /\ [][ShareNext]_vars

\* =============================================================== claims
Did(name, i) == <<name, i>> \in ops

OpsOf(i) == {o \in ops : o[2] = i}

IsError(r) == r \notin {"pending", "nil"}

\* The list a successful commit query returned for API i.
QueryOf(i) == CHOOSE c \in queried[i] : TRUE

HasNewCommits(i) == queried[i] # {} /\ queried[i] # {<<>>}

\* The last-generated-commit the bytes d of a state file hold for record i.
PersistedLast(d, i) == UnmarshalState(d).ApiGenerationStates[i].LastGeneratedCommit

CycleOps == {"MkdirAll", "Generate", "Clean", "CopyFS", "saveState", "commitAll",
             "Commit", "Build", "IsClean"}

\* C1: an API whose commit query returns the empty list gets no generate,
\* clean, copy, state save, commit or build; the step that gets the empty
\* list returns nil from updateApi and changes neither the in-memory state
\* nor the state file nor the head, and the API's record stays as it was,
\* in memory and on disk, for the rest of the run.
C1_EmptyQueryIsNoOp ==
    [][\A i \in ApiIndexes :
        /\ queried'[i] = {<<>>} =>
              /\ \A n \in CycleOps : <<n, i>> \notin ops'
              /\ returned'[i] = "nil"
        /\ (queried[i] = {} /\ queried'[i] = {<<>>}) =>
              /\ state' = state
              /\ disk' = disk /\ diskCorrupt' = diskCorrupt
              /\ head' = head /\ treeDirty' = treeDirty
              /\ ops' = ops \cup {<<"GetApiCommits", i>>}
        /\ queried[i] = {<<>>} =>
              /\ state'.ApiGenerationStates[i] = state.ApiGenerationStates[i]
              /\ PersistedLast(disk', i) = PersistedLast(disk, i)
      ]_vars

C1_Witness ==
    /\ pc = "done" /\ result = "ok"
    /\ queried[1] = {<<>>}
    /\ Did("Commit", 2)

\* C2: once updateApi has returned nil for an API that had new commits, the
\* state file holds, for that API, the hash of the first commit of the list
\* its query returned; the file is whole when updateApi returns.
C2_PersistedIsNewest ==
    \A i \in ApiIndexes :
        (returned[i] = "nil" /\ HasNewCommits(i)) =>
            /\ ~diskCorrupt => PersistedLast(disk, i) = QueryOf(i)[1]
            /\ (pc = "loop" /\ idx = i + 1) => ~diskCorrupt

C2_Witness ==
    /\ pc = "done" /\ result = "ok"
    /\ returned[1] = "nil" /\ HasNewCommits(1) /\ Len(QueryOf(1)) = 2
    /\ returned[2] = "nil" /\ HasNewCommits(2)

\* C3 as stated: whichever of generate, clean, copy, commit, build or the
\* check after the build fails, the state file still holds the
\* last-generated-commit it held when the iteration began.
C3_StateOnlyOnSuccess ==
    \A i \in ApiIndexes :
        returned[i] \in {"Generate failed", "Clean failed", "CopyFS failed",
                         "commitAll failed", "Build failed", "gitrepo.IsClean failed",
                         "building created changes in the repo"} =>
            PersistedLast(disk, i) = PersistedLast(diskAtIterStart, i)

\* C3 amended: a failure of generate, clean or copy leaves the state file as
\* it was when the iteration began; a failure of commit, build or the check
\* after the build finds the state file already holding the newest commit.
C3_StateSavedBeforeCommit ==
    \A i \in ApiIndexes :
        /\ returned[i] \in {"Generate failed", "Clean failed", "CopyFS failed"} =>
              /\ disk = diskAtIterStart
              /\ ~diskCorrupt
              /\ ~Did("saveState", i)
        /\ returned[i] \in {"commitAll failed", "Build failed", "gitrepo.IsClean failed",
                            "building created changes in the repo"} =>
              /\ ~diskCorrupt
              /\ PersistedLast(disk, i) = QueryOf(i)[1]
              /\ PersistedLast(disk, i) # PersistedLast(diskAtIterStart, i)

C3_Witness ==
    /\ pc = "done"
    /\ returned[2] = "commitAll failed"
    /\ returned[1] = "nil" /\ HasNewCommits(1)

\* C4: when updateApi has returned an error for the API at position i, the
\* command has returned that error and nothing was done for any later API.
C4_FailFast ==
    \A i \in ApiIndexes :
        IsError(returned[i]) =>
            /\ pc = "done"
            /\ result = returned[i]
            /\ \A j \in ApiIndexes : j > i => returned[j] = "pending" /\ OpsOf(j) = {}

C4_Witness ==
    /\ pc = "done"
    /\ returned[1] = "Build failed"
    /\ flagAPIPath = 0
    /\ ~Blocked(state.ApiGenerationStates[2])

\* C5: no branch is pushed and no pull request is created in a run in which
\* updateApi returned an error for some API.
C5_NoPushAfterError ==
    (\E i \in ApiIndexes : IsError(returned[i])) =>
        /\ ~Did("PushBranch", 0)
        /\ ~Did("CreatePullRequest", 0)
        /\ pc \notin {"push", "CreatePullRequest"}

C5_Witness ==
    /\ pc = "done"
    /\ flagPush /\ flagGitHubToken
    /\ Did("Commit", 1) /\ returned[1] = "nil"
    /\ returned[2] = "building created changes in the repo"

\* C6: when the build of an API succeeded and the status of the tree was
\* read, a tree that is not clean makes updateApi return "building ...
\* created changes in the repo", an error no other step returns; updateApi
\* returns nil after the build only with a clean tree.
C6_BuildCreatedChanges ==
    \A i \in ApiIndexes :
        /\ (pc = "done" /\ idx = i /\ Did("IsClean", i)
              /\ returned[i] # "gitrepo.IsClean failed" /\ ~LanguageRepoClean) =>
                 /\ returned[i] = "building created changes in the repo"
                 /\ result = "building created changes in the repo"
        /\ returned[i] = "building created changes in the repo" =>
              Did("Build", i) /\ Did("IsClean", i) /\ ~LanguageRepoClean
        /\ (pc = "loop" /\ idx = i + 1 /\ Did("Build", i) /\ returned[i] = "nil") =>
              LanguageRepoClean

C6_Witness ==
    /\ pc = "done"
    /\ result = "building created changes in the repo"
    /\ Did("Commit", idx)

\* C7 as stated: a corpus that was clean before update-apis (or was cloned)
\* has been reset when the command returns from or after the loop.
C7_ResetOnEveryExit ==
    (cmd = "update-apis" /\ pc = "done" /\ idx >= 1 /\ ~apiRepoDirtyAtStart) =>
        Did("ResetHard", 0)

\* C8: a corpus given by -api-root that had modifications before update-apis
\* is never reset.
C8_DirtyCorpusNeverReset ==
    (cmd = "update-apis" /\ flagAPIRoot /\ apiRepoDirtyAtStart) =>
        /\ ~Did("ResetHard", 0)
        /\ apiRepoDirty

C8_Witness ==
    /\ cmd = "update-apis" /\ flagAPIRoot /\ apiRepoDirtyAtStart
    /\ pc = "done" /\ result = "ok"
    /\ Did("Generate", 1)

\* The loop went through every API and the head after it could be read.
RunCompleted ==
    /\ cmd = "update-apis" /\ pc = "done"
    /\ idx = Len(ApiStates) + 1
    /\ result # "gitrepo.HeadHash failed"

\* C9: at the end of a completed update-apis run a branch was pushed exactly
\* when -push was set and the head differs from the head recorded before the
\* loop; without -push, or with the head unchanged, the command returns
\* success and nothing was pushed.
C9_PushIffHeadMoved ==
    RunCompleted =>
        /\ Did("PushBranch", 0) <=> (flagPush /\ head # hashBefore)
        /\ (~flagPush \/ head = hashBefore) =>
              result = "ok" /\ ~Did("PushBranch", 0) /\ ~Did("CreatePullRequest", 0)

C9_Witness ==
    /\ RunCompleted /\ result = "ok"
    /\ flagPush /\ head # hashBefore
    /\ Did("CreatePullRequest", 0)

\* C10: with -push and no token, update-apis and configure return an error
\* from their flag checks: no working directory, no clone or open, no state
\* load, no generation and no commit.
C10_TokenCheckedFirst ==
    (flagPush /\ ~flagGitHubToken) =>
        /\ pc \in {"start", "done"}
        /\ ops = {}
        /\ state = NoState
        /\ head = 0
        /\ pc = "done" =>
              result \in {"-github-token must be provided if -push is set to true",
                          "invalid -language flag specified",
                          "-api-path is not provided"}

C10_Witness ==
    /\ pc = "done"
    /\ flagPush /\ ~flagGitHubToken
    /\ result = "-github-token must be provided if -push is set to true"
    /\ cmd = "update-apis"

\* C11: the loop takes the records one at a time in the order of the state
\* file: an operation is only ever done for the API the loop is at, every
\* earlier API has returned nil by then, an API that has returned is not
\* touched again, the loop moves from a record to the one that follows, and
\* it ends only after every record has returned.
C11_OneApiAtATime ==
    [][/\ \A o \in ops' \ ops : o[2] \in {0, idx}
       /\ idx' # idx => idx' = idx + 1
       /\ \A i \in ApiIndexes :
            /\ returned[i] # "pending" =>
                  /\ returned'[i] = returned[i]
                  /\ OpsOf(i)' = OpsOf(i)
            /\ (OpsOf(i)' # {} \/ returned'[i] # "pending") =>
                  /\ idx' >= i
                  /\ \A j \in ApiIndexes : j < i => returned'[j] = "nil"
            /\ pc' = "resetApiRepo" => returned'[i] = "nil"
      ]_vars

C11_Witness ==
    /\ Did("IsClean", 1) /\ returned[1] = "nil"
    /\ Did("Generate", 2) /\ pc = "Clean"

\* C12: a blocked API gets no operation at all (no commit query, generate,
\* clean, copy, save, commit or build), its record keeps the level and the
\* last-generated-commit it had, in memory and in the state file, updateApi
\* returns nil for it and the loop goes on to the next record.
C12_BlockedIsSkipped ==
    [][\A i \in ApiIndexes :
        (state # NoState /\ state.ApiGenerationStates[i].AutomationLevel = "AUTOMATION_LEVEL_BLOCKED") =>
            /\ OpsOf(i)' = {}
            /\ returned'[i] \in {"pending", "nil"}
            /\ state'.ApiGenerationStates[i] = state.ApiGenerationStates[i]
            /\ UnmarshalState(disk').ApiGenerationStates[i]
                   = UnmarshalState(disk).ApiGenerationStates[i]
            /\ (pc = "loop" /\ idx = i) =>
                  /\ pc' = "loop" /\ idx' = i + 1
                  /\ returned'[i] = "nil" /\ result' = "running"
      ]_vars

C12_Witness ==
    /\ pc = "done" /\ result = "ok"
    /\ Blocked(state.ApiGenerationStates[1])
    /\ returned[1] = "nil"
    /\ Did("Commit", 2)

C15_SavedPerApi ==
    /\ pc = "loop" => ~diskCorrupt
    /\ \A j \in ApiIndexes :
          (j < idx /\ HasNewCommits(j) /\ ~diskCorrupt) =>
              /\ Did("saveState", j)
              /\ PersistedLast(disk, j) = QueryOf(j)[1]
              /\ PersistedLast(disk, j) # 0

C15_Witness ==
    /\ pc = "Generate" /\ idx = 2
    /\ HasNewCommits(1)

\* The list from the oldest commit to the newest.
OldestFirst(c) == [k \in 1..Len(c) |-> c[Len(c) - k + 1]]

\* All lines of the messages of a list of commits, in the order of the list.
RECURSIVE LinesOf(_)
LinesOf(c) ==
    IF c = <<>> THEN <<>> ELSE Head(c).Message \o LinesOf(Tail(c))

IsTagLine(l) == l.prefix = "PiperOrigin-RevId: "

IsOtherLine(l) == l.prefix # "PiperOrigin-RevId: "

\* The lines the message is to hold for commits c, newest first.
ExpectedLines(c) ==
    SelectSeq(LinesOf(OldestFirst(c)), IsOtherLine)
    \o SelectSeq(LinesOf(OldestFirst(c)), IsTagLine)
    \o [k \in 1..Len(c) |->
           [prefix |-> "Source-Link: https://github.com/googleapis/googleapis/commit/",
            rest |-> ToString(OldestFirst(c)[k].Hash)]]

\* C13: the message createCommitMessage returns is, line by line: the lines
\* without the PiperOrigin-RevId prefix of all messages from the oldest
\* commit to the newest, then the lines with the prefix in the same order,
\* then one Source-Link line per commit, oldest first; a newline follows
\* every line, and there are as many lines as the messages have, plus one
\* per commit.
C13_CommitMessage ==
    mPc = "done" =>
        /\ Len(builder) = 2 * Len(ExpectedLines(mCommits))
        /\ Len(ExpectedLines(mCommits)) = Len(LinesOf(mCommits)) + Len(mCommits)
        /\ \A k \in 1..Len(ExpectedLines(mCommits)) :
              /\ builder[2 * k - 1] = ExpectedLines(mCommits)[k]
              /\ builder[2 * k] = [prefix |-> "", rest |-> "\n"]

C13_Witness ==
    /\ mPc = "done"
    /\ Len(mCommits) = 2
    /\ \A k \in 1..2 :
          /\ Len(mCommits[k].Message) = 2
          /\ \E n \in 1..2 : IsTagLine(mCommits[k].Message[n])
    /\ mCommits[1].Message # mCommits[2].Message

Started(phase) == \E k \in 1..Len(gTrace) : gTrace[k] = <<phase, "start">>

Selected == Range(gLibraries)

NothingDone == gCleaned = {} /\ gGenerated = {} /\ gFormatted = {}

\* C16: in a run of the generate command the phases start in the order
\* clean, generate, format, post-generate, each one right after the one
\* before it has returned nil; when generate starts every selected library
\* has been cleaned (by the languages whose clean does anything), when
\* format starts every selected library has been generated, and when
\* post-generate starts every selected library has been generated and
\* formatted (python's format phase formats nothing).
C16_PhaseBarrier ==
    gEntry = "generateCommand" =>
        /\ \A k \in 1..Len(gTrace) :
              gTrace[k][2] = "start" =>
                 /\ gTrace[k][1] = "clean" => k = 1
                 /\ gTrace[k][1] = "generate" =>
                       k > 1 /\ gTrace[k - 1] = <<"clean", "nil">>
                 /\ gTrace[k][1] = "format" =>
                       k > 1 /\ gTrace[k - 1] = <<"generate", "nil">>
                 /\ gTrace[k][1] = "postGenerate" =>
                       k > 1 /\ gTrace[k - 1] = <<"format", "nil">>
        /\ gCleaned # {} => Started("clean")
        /\ (Started("generate") \/ gGenerated # {}) =>
              /\ Started("generate")
              /\ gCfg.Language \in {"dart", "go", "java", "python", "rust"}
                    => gCleaned = Selected
        /\ (Started("format") \/ gFormatted # {}) =>
              /\ Started("format")
              /\ gGenerated = Selected
        /\ Started("postGenerate") =>
              /\ gGenerated = Selected
              /\ gCfg.Language # "python" => gFormatted = Selected

C16_Witness ==
    /\ gEntry = "generateCommand"
    /\ gCfg.Language = "java"
    /\ gPc = "done"
    /\ gResult = "nil"
    /\ Len(gLibraries) = 2
    /\ gCleaned = Selected
    /\ gFormatted = Selected
    /\ Len(gTrace) = 8

\* C17: in a run of the generate command an error returned by clean,
\* generate or format is the last thing that happens: it is what the run
\* returns and no phase starts after it; and no step takes a library out of
\* the cleaned, generated or formatted ones.
C17_ShortCircuit ==
    [][ /\ gEntry' = "generateCommand" =>
              \A k \in 1..Len(gTrace') :
                 (/\ gTrace'[k][1] \in {"clean", "generate", "format"}
                  /\ gTrace'[k][2] \notin {"start", "nil"})
                 => /\ k = Len(gTrace')
                    /\ gPc' = "done"
                    /\ gResult' = gTrace'[k][2]
        /\ gCleaned \subseteq gCleaned'
        /\ gGenerated \subseteq gGenerated'
        /\ gFormatted \subseteq gFormatted' ]_vars

C17_Witness ==
    /\ gEntry = "generateCommand"
    /\ Len(gLibraries) = 2
    /\ gCleaned = {gLibraries[1]}
    /\ gTrace = << <<"clean", "start">>, <<"clean", "clean failed">> >>
    /\ gResult = "clean failed"
    /\ gPc = "done"

UnregisteredPhaseCall ==
    /\ gEntry \in {"clean", "generate", "format", "postGenerate"}
    /\ gCfg.Language \notin {"fake", "dart", "go", "java", "python", "rust"}
    /\ gLibraries # <<>>
    /\ gPc = "done"

C19_ExactlyOneOfNameAndAll ==
    (gEntry = "generateCommand" /\ gPc # "args") =>
        /\ (~gAll /\ gName = 0) => gResult = errMissingLibraryOrAllFlag
        /\ (gAll /\ gName # 0) => gResult = errBothLibraryAndAllFlag
        /\ (gAll <=> gName # 0) =>
              /\ gPc = "done"
              /\ gOps = {}
              /\ gLibraries = <<>>
              /\ gTrace = <<>>
              /\ NothingDone

C19_Witness ==
    /\ gEntry = "generateCommand"
    /\ gAll
    /\ gName = 1
    /\ gCfg.Sources = "set"
    /\ Len(gCfg.Libraries) = 2
    /\ \A k \in 1..2 : ~gCfg.Libraries[k].SkipGenerate /\ gCfg.Libraries[k].Output # ""
    /\ gPc = "done"
    /\ gResult = errBothLibraryAndAllFlag

NamedIsSkipped ==
    \E k \in 1..Len(gCfg.Libraries) :
       gCfg.Libraries[k].Name = gName /\ gCfg.Libraries[k].SkipGenerate

NamedIsAbsent == \A k \in 1..Len(gCfg.Libraries) : gCfg.Libraries[k].Name # gName

\* C20: a run of the generate command for one named library that has
\* skip_generate set, or that is not in the configuration, fails without
\* starting a phase or cleaning, generating or formatting a library; once
\* the configuration and the sources are loaded the error is
\* errSkipGenerate in the first case and ErrLibraryNotFound in the second.
C20_NamedLibrarySkippedOrAbsent ==
    (/\ gEntry = "generateCommand"
     /\ ~gAll
     /\ gName # 0
     /\ gPc = "done"
     /\ NamedIsSkipped \/ NamedIsAbsent)
    => /\ gResult # "nil"
       /\ gTrace = <<>>
       /\ NothingDone
       /\ gResult \notin {errReadConfig, errEmptySources, errLoadSources} =>
             gResult = IF NamedIsSkipped THEN errSkipGenerate ELSE ErrLibraryNotFound

C20_Witness ==
    /\ gEntry = "generateCommand"
    /\ ~gAll
    /\ gName = 1
    /\ Len(gCfg.Libraries) = 2
    /\ gCfg.Libraries[1].SkipGenerate
    /\ ~gCfg.Libraries[2].SkipGenerate
    /\ gPc = "done"
    /\ gResult = errSkipGenerate

\* The names of the libraries of a configuration that do not have
\* skip_generate set, in the order of the configuration.
RECURSIVE Unskipped(_)
Unskipped(libs) ==
    IF libs = <<>> THEN <<>>
    ELSE IF Head(libs).SkipGenerate THEN Unskipped(Tail(libs))
    ELSE <<Head(libs).Name>> \o Unskipped(Tail(libs))

\* C21: in a run of the generate command with --all, when the first phase
\* starts the libraries handed to the phases are the configured libraries
\* without skip_generate, in configuration order, and they stay that; a
\* library with skip_generate is never cleaned, generated or formatted; and
\* when no library is without skip_generate the run does not return nil and
\* starts no phase: once configuration and sources are loaded it returns
\* the "no libraries to generate" error.
C21_AllSelectsUnskipped ==
    (gEntry = "generateCommand" /\ gAll /\ gName = 0) =>
        /\ gTrace # <<>> => gLibraries = Unskipped(gCfg.Libraries)
        /\ \A k \in 1..Len(gCfg.Libraries) :
              gCfg.Libraries[k].SkipGenerate =>
                 gCfg.Libraries[k].Name \notin (gCleaned \cup gGenerated \cup gFormatted)
        /\ Unskipped(gCfg.Libraries) = <<>> =>
              /\ gTrace = <<>>
              /\ gResult # "nil"
              /\ (gPc = "done"
                  /\ gResult \notin {errReadConfig, errEmptySources, errLoadSources})
                 => gResult = errAllSkipped

C21_Witness ==
    /\ gEntry = "generateCommand"
    /\ gAll
    /\ Len(gCfg.Libraries) = 2
    /\ gCfg.Libraries[1].SkipGenerate
    /\ ~gCfg.Libraries[2].SkipGenerate
    /\ gLibraries = <<2>>
    /\ gGenerated = {2}
    /\ gPc = "done"
    /\ gResult = "nil"

\* C28, as claimed: checkAndClean on a directory that does not exist
\* returns nil and leaves everything as it was, whatever the keep list.
C28_AbsentDirIsNoOp ==
    (dirKind = "absent" /\ cPc = "done") => (cResult = "nil" /\ tree = treeBefore)

Ancestors(p) == { SubSeq(p, 1, n) : n \in 1..(Len(p) - 1) }

RECURSIVE WithoutNames(_, _)
WithoutNames(list, names) ==
    IF list = <<>> THEN <<>>
    ELSE IF Head(list).Name \in names THEN WithoutNames(Tail(list), names)
    ELSE <<Head(list)>> \o WithoutNames(Tail(list), names)

\* C25: the result of mergePackageDependencies starts with the library's
\* dependencies, in their order and as they are, and goes on with exactly
\* the default dependencies whose name no library dependency has, in the
\* order of the defaults; no default dependency in the result has the name
\* of a library dependency.
C25_LibraryDependenciesWin ==
    (mergeFn = "mergePackageDependencies" /\ mergePc = "done") =>
        LET n == Len(libDeps)
            declared == { libDeps[k].Name : k \in 1..n }
        IN /\ Len(deps) >= n
           /\ SubSeq(deps, 1, n) = libDeps
           /\ SubSeq(deps, n + 1, Len(deps)) = WithoutNames(defaultDeps, declared)
           /\ \A k \in (n + 1)..Len(deps) : deps[k].Name \notin declared

C25_Witness ==
    /\ mergeFn = "mergePackageDependencies"
    /\ mergePc = "done"
    /\ libDeps = << [Name |-> "a", Package |-> "p"] >>
    /\ defaultDeps = << [Name |-> "a", Package |-> "q"], [Name |-> "b", Package |-> "q"] >>
    /\ deps = << [Name |-> "a", Package |-> "p"], [Name |-> "b", Package |-> "q"] >>

\* The trimmed, non-empty elements of a comma-joined string, in order.
RECURSIVE NonEmpty(_)
NonEmpty(pieces) ==
    IF pieces = <<>> THEN <<>>
    ELSE IF TrimSpace(Head(pieces)) = <<>> THEN NonEmpty(Tail(pieces))
    ELSE <<TrimSpace(Head(pieces))>> \o NonEmpty(Tail(pieces))

Elements(str) == NonEmpty(Split(str, <<>>))

\* A list without the repetitions of its elements.
RECURSIVE FirstOccurrences(_, _)
FirstOccurrences(list, before) ==
    IF list = <<>> THEN <<>>
    ELSE IF Head(list) \in before THEN FirstOccurrences(Tail(list), before)
    ELSE <<Head(list)>> \o FirstOccurrences(Tail(list), before \cup {Head(list)})

\* C26, as claimed: the result of mergeDartDependencies is the comma-joined
\* list of the trimmed, non-empty elements of the library's string followed
\* by those of the defaults' string, each element once, at its first
\* position.
C26_EveryElementOnce ==
    (mergeFn = "mergeDartDependencies" /\ mergePc = "done") =>
        deps = Join(FirstOccurrences(Elements(libDeps) \o Elements(defaultDeps), {}))

\* The keep list of the defaults applyDefaults was called with.
DefaultKeep == IF fDefaults = <<>> THEN <<>> ELSE fDefaults[1].Keep

\* C22: the keep list of a resolved library is the library's own list, entry
\* by entry, followed by the keep list of the defaults, entry by entry.
C22_KeepAppended ==
    (fPc = "done" /\ fResult = "nil") =>
        /\ Len(fResolved.Keep) = Len(fLib.Keep) + Len(DefaultKeep)
        /\ \A n \in 1..Len(fLib.Keep) : fResolved.Keep[n] = fLib.Keep[n]
        /\ \A n \in 1..Len(DefaultKeep) :
              fResolved.Keep[Len(fLib.Keep) + n] = DefaultKeep[n]

C22_Witness ==
    /\ fPc = "done"
    /\ fResult = "nil"
    /\ fLib.Keep = <<"a", "b">>
    /\ DefaultKeep = <<"c", "a">>
    /\ fResolved.Keep = <<"a", "b", "c", "a">>

\* C23: in a resolved library, output, release level and transport have
\* the library's own value when that is not empty; an empty release level
\* or transport has the value of the defaults (none without defaults); and
\* a field that has the value of the defaults was empty in the library.
C23_OwnValueFirst ==
    (fPc = "done" /\ fResult = "nil") =>
        /\ fLib.Output # "" => fResolved.Output = fLib.Output
        /\ fLib.ReleaseLevel # "" => fResolved.ReleaseLevel = fLib.ReleaseLevel
        /\ fLib.Transport # "" => fResolved.Transport = fLib.Transport
        /\ fLib.ReleaseLevel = "" =>
              fResolved.ReleaseLevel =
                 IF fDefaults = <<>> THEN "" ELSE fDefaults[1].ReleaseLevel
        /\ fLib.Transport = "" =>
              fResolved.Transport =
                 IF fDefaults = <<>> THEN "" ELSE fDefaults[1].Transport
        /\ fDefaults # <<>> =>
              /\ fResolved.Output = "def" => fLib.Output = ""
              /\ fResolved.ReleaseLevel = "preview" => fLib.ReleaseLevel = ""
              /\ fResolved.Transport = "grpc" => fLib.Transport = ""

C23_Witness ==
    /\ fPc = "done"
    /\ fResult = "nil"
    /\ fDefaults # <<>>
    /\ fDefaults[1].Output = "def"
    /\ fDefaults[1].ReleaseLevel = "preview"
    /\ fDefaults[1].Transport = "grpc"
    /\ fLib.Output = "lib"
    /\ fLib.ReleaseLevel = ""
    /\ fLib.Transport = "rest"
    /\ fResolved.Output = "lib"
    /\ fResolved.ReleaseLevel = "preview"
    /\ fResolved.Transport = "rest"

\* C24: applyDefaults on a veneer without an output path returns the
\* "requires an explicit output path" error and no library, whatever the
\* defaults are; and no resolved veneer has an output path that is not the
\* library's own.
C24_VeneerNeedsOutput ==
    (fPc = "done" /\ fLib.Veneer) =>
        /\ fLib.Output = "" =>
              /\ fResult = "veneer requires an explicit output path"
              /\ fResolved = NoLibrary
        /\ fResult = "nil" => fResolved.Output = fLib.Output /\ fLib.Output # ""

C24_Witness ==
    /\ fPc = "done"
    /\ fLib.Veneer
    /\ fLib.Output = ""
    /\ fDefaults # <<>>
    /\ fDefaults[1].Output = "def"
    /\ fResult = "veneer requires an explicit output path"

\* C27: resolution applies the defaults and never changes them, and what
\* one library was resolved to is not changed by resolving or by writing
\* into the other library: the defaults hold what they held at the start,
\* and a resolved library that nobody wrote into holds what fillDefaults
\* gave it.
C27_DefaultsNeverShared ==
    sharedDefaults # <<>> =>
        /\ modifiedLib = 0 =>
               DefaultsValue(heap, sharedDefaults) = defaultsBefore
        /\ \A i \in ShareLibs :
               (resolvedAs[i] # <<>> /\ modifiedLib # i) =>
                   LibValue(heap, libraries[i]) = resolvedAs[i][1]

\* The order of the steps of one API's update that the claim states.
StatedOrder ==
    <<"Generate", "Clean", "CopyFS", "saveState", "commitAll", "Build", "IsClean">>

\* The error updateApi returns when the named step fails.
FailureOf(s) ==
    CASE s = "Generate" -> "Generate failed"
      [] s = "Clean" -> "Clean failed"
      [] s = "CopyFS" -> "CopyFS failed"
      [] s = "saveState" -> "saveState failed"
      [] s = "commitAll" -> "commitAll failed"
      [] s = "Build" -> "Build failed"
      [] OTHER -> "gitrepo.IsClean failed"

\* C33: within one API's update the steps run in the order generate,
\* clean, copy, state save, commit, build, cleanliness check, and a step
\* has run only if the step before it has run and did not fail; so a build
\* has run only after the commit step completed.
C33_StepsInOrder ==
    \A i \in ApiIndexes :
        /\ \A k \in 2..Len(StatedOrder) :
               Did(StatedOrder[k], i) =>
                   /\ Did(StatedOrder[k - 1], i)
                   /\ returned[i] # FailureOf(StatedOrder[k - 1])
        /\ (pc = "Build" /\ idx = i) => Did("commitAll", i)

\* An API went through all its steps and the update returned nil.
C33_Witness ==
    \E i \in ApiIndexes :
        /\ \A k \in 1..Len(StatedOrder) : Did(StatedOrder[k], i)
        /\ returned[i] = "nil"

\* C34: when the commit step of an API's update finds nothing modified in
\* the language repository, no commit is made and no error is returned,
\* the update goes on to the build, and the state file keeps the newest
\* commit as the API's last-generated-commit.  (The step can still fail in
\* gitrepo.AddAll, before the status is known.)
C34_NothingToCommit ==
    [][(pc = "commitAll" /\ LanguageRepoClean) =>
          \/ returned'[idx] = "commitAll failed"
          \/ /\ pc' = "Build"
             /\ result' = result
             /\ head' = head
             /\ <<"Commit", idx>> \notin ops'
             /\ PersistedLast(disk', idx) = commits[1]]_vars

\* An API's update found nothing to commit and went on to its build.
C34_Witness ==
    \E i \in ApiIndexes :
        /\ Did("commitAll", i)
        /\ ~Did("Commit", i)
        /\ Did("Build", i)

\* C35 as stated: whenever updateApi reaches the commit step there is
\* something to commit, a commit is made and the head advances.
C35_AlwaysSomethingToCommit ==
    /\ [](pc = "commitAll" => (treeDirty \/ diskCorrupt \/ disk # headState))
    /\ [][(pc = "commitAll" /\ pc' = "Build") =>
             (head' = head + 1 /\ <<"Commit", idx>> \in ops')]_vars

\* What does hold of the commit step: when the state file was as committed
\* at the start of the API's update, updateApi reaches the commit step with
\* the state file modified; a commit is made and the head advances, unless
\* the commit step fails.
SomethingToCommitWhenCommitted ==
    /\ []((pc = "commitAll" /\ diskAtIterStart = headState) =>
             (disk # headState /\ ~LanguageRepoClean))
    /\ [][(pc = "commitAll" /\ diskAtIterStart = headState /\ pc' = "Build") =>
             (head' = head + 1 /\ <<"Commit", idx>> \in ops')]_vars

\* C38: update-apis with -repo-root returns "language repo must be clean
\* before update", before any work, exactly when the language repository
\* has uncommitted modifications: the error is returned only for a language
\* repository that is not clean, and the command goes on to load the state
\* only of a language repository that is clean.
C38_LanguageRepoDecides ==
    (cmd = "update-apis" /\ flagRepoRoot) =>
        /\ result = "language repo must be clean before update" =>
               (~LanguageRepoClean /\ OpsOf(1) = {})
        /\ pc = "loadState" => LanguageRepoClean

InControlDirectory(p) ==
    \E n \in 1..Len(p) : p[n] \in {".git", ".github", ".gemini"}

\* C32: a control directory (.git, .github, .gemini), at any depth, and
\* everything inside it is left as it was, whatever the keep list holds.
C32_ControlDirectoriesUntouched ==
    \A p \in treeBefore : InControlDirectory(p) => p \in tree

\* A run that deleted files returned nil and the three control directories,
\* none of them in the keep list, are as they were.
C32_Witness ==
    /\ cPc = "done"
    /\ cResult = "nil"
    /\ keep = {}
    /\ {<<".gemini">>, <<".git", "f">>, <<"d", ".github", "f">>, <<"d", "f">>} \subseteq treeBefore
    /\ <<"d", "f">> \notin tree
    /\ {<<".gemini">>, <<".git", "f">>, <<"d", ".github", "f">>} \subseteq tree

\* C36: after checkAndClean has returned nil for a directory, every path
\* that remains outside the control directories is an entry of the keep
\* list, the librarian.yaml of the root, or a directory that still holds
\* an entry.
C36_NoStalePath ==
    (dirKind = "dir" /\ cPc = "done" /\ cResult = "nil") =>
        \A p \in tree :
            \/ InControlDirectory(p)
            \/ \E k \in keep : p = SelectSeq(k, NotDot)
            \/ p = <<"librarian.yaml">>
            \/ \E q \in tree : IsUnder(q, p)

\* A run returned nil having removed a file, a nested librarian.yaml and
\* the directories they left empty.
C36_Witness ==
    /\ dirKind = "dir"
    /\ cRun = 1
    /\ cPc = "done"
    /\ cResult = "nil"
    /\ keep = { <<"f">> }
    /\ {<<"d", "e", "f">>, <<"d", "librarian.yaml">>, <<"librarian.yaml">>} \subseteq treeBefore
    /\ <<"d", ".github">> \notin treeBefore
    /\ tree = { <<"f">>, <<"librarian.yaml">> }

\* C37: after checkAndClean has returned nil, every file that was under a
\* directory the keep list names still exists.
C37_KeptDirectoryKeepsFiles ==
    (dirKind = "dir" /\ cPc = "done" /\ cResult = "nil") =>
        \A k \in keep : \A p \in treeBefore :
            (IsUnder(p, SelectSeq(k, NotDot)) /\ p \notin DirPaths) => p \in tree

\* The libraries of the configuration that the arguments select.
SelectedConfigs ==
    { k \in 1..Len(gCfg.Libraries) :
        /\ ~gCfg.Libraries[k].SkipGenerate
        /\ gAll \/ gCfg.Libraries[k].Name = gName }

\* C39: in a run of the generate command every selected library is
\* resolved before the first phase starts: a phase has started only when
\* every selected library is among the prepared ones and none of them is a
\* veneer without an output path; and when the run has returned the veneer
\* error no phase has started and no library, those resolved before it
\* included, has been cleaned, generated or formatted.
C39_ResolvedBeforePhases ==
    gEntry = "generateCommand" =>
        /\ gTrace # <<>> =>
              \A k \in SelectedConfigs :
                 /\ gCfg.Libraries[k].Name \in Range(gLibraries)
                 /\ ~(gCfg.Libraries[k].Veneer /\ gCfg.Libraries[k].Output = "")
        /\ (\E k \in SelectedConfigs :
               gCfg.Libraries[k].Veneer /\ gCfg.Libraries[k].Output = "") =>
              /\ gTrace = <<>>
              /\ NothingDone
              /\ gResult # "nil"
        /\ gResult = "veneer requires an explicit output path" =>
              (gTrace = <<>> /\ NothingDone /\ gOps \subseteq {"yaml.Read", "LoadSources"})

\* The second library failed to resolve after the first had been resolved.
C39_Witness ==
    /\ gEntry = "generateCommand"
    /\ gAll
    /\ gPc = "done"
    /\ gResult = "veneer requires an explicit output path"
    /\ gLibraries = <<1>>
    /\ ~gCfg.Libraries[1].Veneer
    /\ gCfg.Libraries[2].Veneer

\* C40: applyDefaults called without defaults returns the library resolved
\* from its own fields or a configuration error, and never dereferences
\* the nil defaults.
C40_NoDefaultsNeverCrashes ==
    (fPc = "done" /\ fDefaults = <<>>) =>
        /\ fResult \in {"nil", "veneer requires an explicit output path"}
        /\ fResult = "nil" => fResolved.Output = fLib.Output

====
